---- MODULE Spec2Model ----
(***************************************************************************)
(* Model of the night-sky calculator of Cosmic-Night-Agent:                *)
(*   src/src/iss_tracker.py  satellite position and visibility             *)
(*   src/src/astronomy.py    sunrise / sunset approximation, moon phase    *)
(*   src/app.py              constellation scan, iss_visibility, planet    *)
(*                           list, constellation guide, location of main   *)
(*                                                                         *)
(* Numbers are fixed point.  Angles are in millidegrees (mdeg), sines and  *)
(* cosines are scaled by TrigScale, distances are whole kilometres, clock  *)
(* values of the solar approximator are hundredths of a minute, and the    *)
(* times of the constellation scan are whole minutes.                      *)
(***************************************************************************)
EXTENDS Integers, Sequences, FiniteSets, TLC

VARIABLES
    op,      \* the operation that was called last ("none" before any call)
    arg,     \* its arguments and the answers of its external collaborators
    pc,      \* position inside the operation
    loc,     \* local variables of the operation (solar approximator, moon phase)
    ret,     \* the value returned, or the exception raised
    idx,                    \* constellation scan: catalog index of the current star
    date,                   \* observer.date inside the sampling loop
    max_altitude,           \* max_altitude of the current star
    best_time,              \* best_time of the current star: <<>> is None, <<t>> a time
    is_visible_tonight,     \* is_visible_tonight of the current star
    iterations,             \* executions of the sampling loop body for the current star
    visible_constellations, \* the list the scan builds (max_altitude kept, as sorted)
    shown,                  \* what main renders for the scan result
    session                 \* st.session_state: the location keys

vars == <<op, arg, pc, loc, ret, idx, date, max_altitude, best_time,
          is_visible_tonight, iterations, visible_constellations, shown, session>>

scanVars == <<idx, date, max_altitude, best_time, is_visible_tonight,
              iterations, visible_constellations, shown>>

None == "None"

(***************************************************************************)
(* math: sin, cos, tan, atan2, acos, sqrt, radians in fixed point.         *)
(***************************************************************************)
TrigScale == 10000

SinTab ==
  << 175, 349, 523, 698, 872, 1045, 1219, 1392, 1564, 1736, 1908, 2079, 2250, 2419, 2588,
     2756, 2924, 3090, 3256, 3420, 3584, 3746, 3907, 4067, 4226, 4384, 4540, 4695, 4848, 5000,
     5150, 5299, 5446, 5592, 5736, 5878, 6018, 6157, 6293, 6428, 6561, 6691, 6820, 6947, 7071,
     7193, 7314, 7431, 7547, 7660, 7771, 7880, 7986, 8090, 8192, 8290, 8387, 8480, 8572, 8660,
     8746, 8829, 8910, 8988, 9063, 9135, 9205, 9272, 9336, 9397, 9455, 9511, 9563, 9613, 9659,
     9703, 9744, 9781, 9816, 9848, 9877, 9903, 9925, 9945, 9962, 9976, 9986, 9994, 9998, 10000 >>

\* sin of a whole number of degrees 0..90, scaled by TrigScale
SinDeg(k) == IF k = 0 THEN 0 ELSE SinTab[k]

Abs(x) == IF x < 0 THEN -x ELSE x

\* int(x / d) of Python for d > 0: truncation toward zero
TruncDiv(x, d) == IF x >= 0 THEN x \div d ELSE -((-x) \div d)

\* sin of an angle in 0..90000 mdeg, linear between whole degrees
SinQuadrant(m) ==
    LET k == m \div 1000
        f == m % 1000
    IN  IF f = 0 THEN SinDeg(k)
        ELSE SinDeg(k) + ((SinDeg(k + 1) - SinDeg(k)) * f) \div 1000

\* math.sin of an angle in mdeg
Sin(m) ==
    LET r == m % 360000
    IN  IF r <= 90000 THEN SinQuadrant(r)
        ELSE IF r <= 180000 THEN SinQuadrant(180000 - r)
        ELSE IF r <= 270000 THEN -SinQuadrant(r - 180000)
        ELSE -SinQuadrant(360000 - r)

\* math.cos of an angle in mdeg
Cos(m) == Sin(m + 90000)

\* math.sqrt of n >= 0, rounded down
RECURSIVE SqrtBetween(_, _, _)
SqrtBetween(n, lo, hi) ==
    IF lo >= hi THEN lo
    ELSE LET mid == (lo + hi + 1) \div 2
         IN  IF mid * mid <= n THEN SqrtBetween(n, mid, hi)
             ELSE SqrtBetween(n, lo, mid - 1)

Sqrt(n) == SqrtBetween(n, 0, 46340)

\* math.atan2(num, den) for num >= 0 and den >= 0, in mdeg (0..90000):
\* the angle t with sin(t) * den = cos(t) * num
AtanQuadrant(num, den) ==
    IF num = 0 THEN 0
    ELSE IF den = 0 THEN 90000
    ELSE LET F(k) == (SinDeg(k) * den - SinDeg(90 - k) * num) \div 1000
             k == CHOOSE j \in 0..89 : F(j) <= 0 /\ F(j + 1) > 0
         IN  k * 1000 + ((-F(k)) * 1000) \div (F(k + 1) - F(k))

\* math.degrees(math.atan2(num, den)) in mdeg, in (-180000, 180000]
Atan2(num, den) ==
    IF den >= 0 /\ num >= 0 THEN AtanQuadrant(num, den)
    ELSE IF den >= 0 THEN -AtanQuadrant(-num, den)
    ELSE IF num >= 0 THEN 180000 - AtanQuadrant(num, -den)
    ELSE AtanQuadrant(-num, -den) - 180000

\* math.radians of an angle in mdeg, in units of 1/100000 radian
Radians(m) == (m * 17453) \div 10000

\* math.degrees(math.asin(s / TrigScale)) for 0 <= s <= TrigScale, in mdeg
Asin(s) ==
    IF s >= TrigScale THEN 90000
    ELSE LET k == CHOOSE j \in 0..89 : SinDeg(j) <= s /\ s < SinDeg(j + 1)
         IN  k * 1000 + ((s - SinDeg(k)) * 1000) \div (SinDeg(k + 1) - SinDeg(k))

\* math.degrees(math.acos(x / TrigScale)) for -TrigScale <= x <= TrigScale, in mdeg
Acos(x) == IF x >= 0 THEN 90000 - Asin(x) ELSE 90000 + Asin(-x)

\* math.tan of an angle in (-90000, 90000) mdeg, scaled by TrigScale; at +-90000,
\* where the floating-point tangent is finite and huge (1.6e16), a value large
\* enough that its product with any non-zero tangent of the model exceeds 1
Tan(m) ==
    IF Cos(m) = 0 THEN (IF Sin(m) > 0 THEN 40000000 ELSE -40000000)
    ELSE TruncDiv(Sin(m) * TrigScale, Cos(m))

(***************************************************************************)
(* src/src/iss_tracker.py                                                  *)
(***************************************************************************)
EarthRadiusKm == 6371
IssAltitudeKm == 408
max_visibility_range == 2200

\* the distance by the spherical law of cosines, which loses the exact zero
\* of coincident points to rounding
_calculate_distance_law_of_cosines(lat1, lon1, lat2, lon2) ==
    LET x == (Sin(lat1) * Sin(lat2)) \div TrigScale
             + (((Cos(lat1) * Cos(lat2)) \div TrigScale) * Cos(lon2 - lon1)) \div TrigScale
        c == Radians(Acos(IF x > TrigScale THEN TrigScale
                          ELSE IF x < -TrigScale THEN -TrigScale ELSE x))
    IN  (EarthRadiusKm * c) \div 100000

\* the distance with cos(lat1) taken twice in place of cos(lat1) * cos(lat2)
_calculate_distance_one_latitude(lat1, lon1, lat2, lon2) ==
    LET sdlat == Sin(TruncDiv(lat2 - lat1, 2))
        sdlon == Sin(TruncDiv(lon2 - lon1, 2))
        a == sdlat * sdlat
             + ((Cos(lat1) * Cos(lat1)) \div TrigScale) * ((sdlon * sdlon) \div TrigScale)
        full == TrigScale * TrigScale
        aa == IF a > full THEN full ELSE a
        c == 2 * Radians(Atan2(Sqrt(aa), Sqrt(full - aa)))
    IN  (EarthRadiusKm * c) \div 100000

\* _calculate_distance: Haversine distance in whole km between two points
\* given in mdeg
_calculate_distance(lat1, lon1, lat2, lon2) ==
    LET sdlat == Sin(TruncDiv(lat2 - lat1, 2))
        sdlon == Sin(TruncDiv(lon2 - lon1, 2))
        a == sdlat * sdlat
             + ((Cos(lat1) * Cos(lat2)) \div TrigScale) * ((sdlon * sdlon) \div TrigScale)
        full == TrigScale * TrigScale
        aa == IF a > full THEN full ELSE a
        c == 2 * Radians(Atan2(Sqrt(aa), Sqrt(full - aa)))
    IN  (EarthRadiusKm * c) \div 100000

\* the elevation without the overhead case: a zero distance gives 0
_calculate_elevation_angle_no_overhead(distance_km) ==
    IF distance_km = 0 THEN 0
    ELSE LET angle == Atan2(IssAltitudeKm, distance_km)
             lower == IF angle > 0 THEN angle ELSE 0
         IN  IF lower < 90000 THEN lower ELSE 90000

\* _calculate_elevation_angle: elevation in mdeg for a distance in km
_calculate_elevation_angle(distance_km) ==
    IF distance_km = 0 THEN 90000
    ELSE LET angle == Atan2(IssAltitudeKm, distance_km)
             lower == IF angle > 0 THEN angle ELSE 0
         IN  IF lower < 90000 THEN lower ELSE 90000

\* _calculate_azimuth: forward azimuth in mdeg, in [0, 360000)
_calculate_azimuth(observer_lat, observer_lon, target_lat, target_lon) ==
    LET dlon == target_lon - observer_lon
        x == (Sin(dlon) * Cos(target_lat)) \div TrigScale
        y == (Cos(observer_lat) * Sin(target_lat)) \div TrigScale
             - (((Sin(observer_lat) * Cos(target_lat)) \div TrigScale) * Cos(dlon))
               \div TrigScale
    IN  (Atan2(x, y) + 360000) % 360000

\* _estimate_magnitude_from_distance: magnitude in tenths
_estimate_magnitude_from_distance(distance_km) ==
    IF distance_km < 500 THEN -35
    ELSE IF distance_km < 1000 THEN -25
    ELSE IF distance_km < 1500 THEN -15
    ELSE -5

\* the quality label with the lowest band starting at 15 degrees
_rate_visibility_poor_below_15(elevation) ==
    IF elevation > 60000 THEN "Excellent - Nearly overhead"
    ELSE IF elevation > 40000 THEN "Very good - High in sky"
    ELSE IF elevation > 25000 THEN "Good - Clearly visible"
    ELSE IF elevation > 15000 THEN "Fair - Low but visible"
    ELSE "Poor - Very low on horizon"

\* _rate_visibility: quality label for an elevation in mdeg
_rate_visibility(elevation) ==
    IF elevation > 60000 THEN "Excellent - Nearly overhead"
    ELSE IF elevation > 40000 THEN "Very good - High in sky"
    ELSE IF elevation > 25000 THEN "Good - Clearly visible"
    ELSE IF elevation > 10000 THEN "Fair - Low but visible"
    ELSE "Poor - Very low on horizon"

\* a visibility test that excludes the boundary distance
IsWithinRangeStrict(distance_km) == distance_km < max_visibility_range

\* is_visible = distance_km <= max_visibility_range
IsWithinRange(distance_km) == distance_km <= max_visibility_range

\* calculate_iss_visibility
calculate_iss_visibility(observer_lat, observer_lon, iss_lat, iss_lon) ==
    LET distance_km == _calculate_distance(observer_lat, observer_lon, iss_lat, iss_lon)
        is_visible == IsWithinRange(distance_km)
        elevation == _calculate_elevation_angle(distance_km)
        azimuth == _calculate_azimuth(observer_lat, observer_lon, iss_lat, iss_lon)
    IN  IF is_visible
        THEN [visible |-> TRUE,
              distance_km |-> distance_km,
              elevation_degrees |-> elevation,
              azimuth_degrees |-> azimuth,
              brightness_magnitude |-> _estimate_magnitude_from_distance(distance_km),
              visibility_quality |-> _rate_visibility(elevation)]
        ELSE [visible |-> FALSE,
              distance_km |-> distance_km,
              next_opportunity |-> "Check pass predictions"]

\* _describe_location
_describe_location(lat, lon) ==
    LET band == IF -30000 <= lon /\ lon <= 60000 THEN 1
                ELSE IF 60000 <= lon /\ lon <= 150000 THEN 2
                ELSE IF -150000 <= lon /\ lon <= -30000 THEN 3
                ELSE 4
    IN  IF -30000 <= lat /\ lat <= 30000
        THEN <<"Over Africa or Middle East", "Over Asia or Australia",
               "Over the Americas", "Over the Pacific Ocean">>[band]
        ELSE IF lat > 30000
        THEN <<"Over Europe or North Africa", "Over Northern Asia",
               "Over North America", "Over the North Pacific">>[band]
        ELSE <<"Over Southern Africa", "Over Australia or Southern Ocean",
               "Over South America", "Over the South Pacific">>[band]

\* _is_daylight_below, with datetime.now().hour given
_is_daylight_below(lat, lon, current_hour) ==
    LET local_hour == (current_hour + TruncDiv(lon, 15000)) % 24
    IN  6 <= local_hour /\ local_hour <= 18

\* _get_demo_position, with time.time() given in seconds
_get_demo_position(t, current_hour) ==
    LET lat == (51500 * Sin((t * 5730) \div 100)) \div TrigScale
        lon == ((t * 10) % 360000) - 180000
    IN  [timestamp |-> t,
         latitude |-> lat,
         longitude |-> lon,
         altitude_km |-> IssAltitudeKm,
         velocity_kmh |-> 27600,
         location_description |-> _describe_location(lat, lon),
         daylight |-> _is_daylight_below(lat, lon, current_hour),
         visibility_region_radius_km |-> max_visibility_range,
         demo_data |-> TRUE]

\* The answer of api.open-notify.org/iss-now.json: requests.get raises, or
\* gives a status and a body.  keys are the keys of body['iss_position']
\* (has_position: the body has that key at all).
FeedRaises == [kind |-> "raise", status |-> 0, json |-> FALSE, has_position |-> FALSE,
               keys |-> {}, latitude |-> 0, longitude |-> 0]

FeedUnavailable(feed) == feed.kind = "raise" \/ feed.status # 200

\* get_iss_current_position
get_iss_current_position(feed, t, current_hour) ==
    IF feed.kind = "raise" THEN _get_demo_position(t, current_hour)
    ELSE IF feed.status = 200
    THEN IF ~feed.json THEN _get_demo_position(t, current_hour)
         ELSE LET lat == IF "latitude" \in feed.keys THEN feed.latitude ELSE 0
                  lon == IF "longitude" \in feed.keys THEN feed.longitude ELSE 0
              IN  [timestamp |-> t,
                   latitude |-> lat,
                   longitude |-> lon,
                   altitude_km |-> IssAltitudeKm,
                   velocity_kmh |-> 27600,
                   location_description |-> _describe_location(lat, lon),
                   daylight |-> _is_daylight_below(lat, lon, current_hour),
                   visibility_region_radius_km |-> max_visibility_range]
    ELSE _get_demo_position(t, current_hour)

(***************************************************************************)
(* src/app.py: haversine_distance, iss_visibility                          *)
(***************************************************************************)
visible_threshold == 1000

\* haversine_distance
haversine_distance(lat1, lon1, lat2, lon2) ==
    LET sdphi == Sin(TruncDiv(lat2 - lat1, 2))
        sdlambda == Sin(TruncDiv(lon2 - lon1, 2))
        a == sdphi * sdphi
             + ((Cos(lat1) * Cos(lat2)) \div TrigScale)
               * ((sdlambda * sdlambda) \div TrigScale)
        full == TrigScale * TrigScale
        aa == IF a > full THEN full ELSE a
        c == 2 * Radians(Atan2(Sqrt(aa), Sqrt(full - aa)))
    IN  (EarthRadiusKm * c) \div 100000

\* iss_visibility
iss_visibility(lat, lon, feed) ==
    IF \/ feed.kind = "raise"
       \/ ~feed.json
       \/ ~feed.has_position
       \/ ~({"latitude", "longitude"} \subseteq feed.keys)
    THEN [visible |-> FALSE, message |-> "Could not get ISS location"]
    ELSE LET iss_lat == feed.latitude
             iss_lon == feed.longitude
             distance == haversine_distance(lat, lon, iss_lat, iss_lon)
         IN  IF distance <= visible_threshold
             THEN [visible |-> TRUE,
                   distance_km |-> distance,
                   iss_lat |-> iss_lat,
                   iss_lon |-> iss_lon,
                   message |-> "The ISS is currently visible from your location!",
                   next_pass_time |-> "now"]
             ELSE [visible |-> FALSE,
                   distance_km |-> distance,
                   iss_lat |-> iss_lat,
                   iss_lon |-> iss_lon,
                   message |-> "ISS visibility cannot be determined at this time.",
                   next_pass_time |-> "Data unavailable"]

(***************************************************************************)
(* src/src/astronomy.py: calculate_sunrise_sunset                          *)
(* Clock values (sunrise_hour, sunset_hour, E) are in hundredths of a      *)
(* minute; a datetime of the given date is its minute of the day.          *)
(***************************************************************************)
\* datetime.strftime("%H:%M") of a minute count: the clock time of its day
StrfHM(minute) == <<(minute % 1440) \div 60, (minute % 1440) % 60>>

\* lines 395-398 with a fallback of 0 in the except branch
hour_angle_fallback_zero(x) ==
    IF x < -TrigScale \/ x > TrigScale THEN 0 ELSE Acos(x)

\* lines 395-398: math.acos raises outside [-1, 1]; the bare except gives 90
hour_angle(x) ==
    IF x < -TrigScale \/ x > TrigScale THEN 90000 ELSE Acos(x)

\* lines 382-398: day of year, equation of time, declination, hour angle
SunHourAngleStep(lat, day_of_year) ==
    LET B == TruncDiv(360000 * (day_of_year - 81), 365)
        E == TruncDiv(987 * Sin(2 * B) - 753 * Cos(B) - 150 * Sin(B), TrigScale)
        decl == TruncDiv(23450 * Sin(TruncDiv(360000 * (284 + day_of_year), 365)),
                         TrigScale)
        x == -TruncDiv(TruncDiv(Tan(lat), 100) * Tan(decl), 100)
    IN  [E |-> E,
         decl |-> decl,
         acos_arg |-> x,
         hour_angle |-> hour_angle(x)]

\* lines 401-402: sunrise_hour and sunset_hour
sunrise_hour(l, lon) == 72000 - 4 * (l.hour_angle \div 10) - l.E - 4 * (lon \div 10)
sunset_hour(l, lon) == 72000 + 4 * (l.hour_angle \div 10) - l.E - 4 * (lon \div 10)

\* the hour and minute handed to date.replace
ClockHour(h) == TruncDiv(h, 6000)
ClockMinute(h) == (h % 6000) \div 100

\* lines 401-425: the clock times, the twilight bands, the day length (in
\* tenths of an hour); date.replace raises ValueError for an hour outside 0..23
SunTimesStep(l, lon) ==
    LET sr == sunrise_hour(l, lon)
        ss == sunset_hour(l, lon)
    IN  IF ClockHour(sr) \notin 0..23 \/ ClockHour(ss) \notin 0..23
        THEN [raised |-> "ValueError"]
        ELSE LET sunrise == ClockHour(sr) * 60 + ClockMinute(sr)
                 sunset == ClockHour(ss) * 60 + ClockMinute(ss)
             IN  [sunrise |-> StrfHM(sunrise),
                  sunset |-> StrfHM(sunset),
                  civil_twilight_begin |-> StrfHM(sunrise - 30),
                  civil_twilight_end |-> StrfHM(sunset + 30),
                  nautical_twilight_begin |-> StrfHM(sunrise - 60),
                  nautical_twilight_end |-> StrfHM(sunset + 60),
                  astronomical_twilight_begin |-> StrfHM(sunrise - 90),
                  astronomical_twilight_end |-> StrfHM(sunset + 90),
                  day_length |-> (l.hour_angle * 2 + 750) \div 1500]

(***************************************************************************)
(* src/src/astronomy.py: calculate_moon_phase                              *)
(* Times are in millionths of a day, counted from the reference new moon;  *)
(* the illumination is in tenths of a percent, the reported age in tenths  *)
(* of a day, the phase angle in mdeg.                                      *)
(***************************************************************************)
\* line 152: datetime(2024, 1, 11, 11, 57), the origin of the time axis
known_new_moon == 0

\* line 158: 29.530588 days
synodic_month == 29530588

\* line 192: 14.765 days
full_moon_offset == 14765000

\* line 155: (date - known_new_moon).total_seconds() / 86400
days_since_new_moon(at) == at - known_new_moon

\* the remainder of C's fmod, which keeps the sign of the dividend
phase_days_truncated(days_since) ==
    IF days_since >= 0 THEN days_since % synodic_month
    ELSE -((-days_since) % synodic_month)

\* line 159: days_since % synodic_month, which has the sign of the divisor
phase_days_of(days_since) == days_since % synodic_month

\* line 162: (phase_days / synodic_month) * 360
phase_angle_of(phase_days) == ((phase_days \div 1000) * 36000) \div 2953

\* line 163 without the halving
illumination_unhalved(phase_angle) ==
    ((TrigScale - Cos(phase_angle)) * 1000) \div TrigScale

\* lines 163 and 187: round((1 - cos(phase_angle)) / 2 * 100, 1)
illumination_of(phase_angle) ==
    ((TrigScale - Cos(phase_angle)) * 1000 + TrigScale) \div (2 * TrigScale)

\* lines 166-183 with the boundaries in the earlier bin
phase_name_closed(phase_days) ==
    IF phase_days <= 1850000 THEN "New Moon"
    ELSE IF phase_days <= 5540000 THEN "Waxing Crescent"
    ELSE IF phase_days <= 9230000 THEN "First Quarter"
    ELSE IF phase_days <= 12910000 THEN "Waxing Gibbous"
    ELSE IF phase_days <= 16600000 THEN "Full Moon"
    ELSE IF phase_days <= 20290000 THEN "Waning Gibbous"
    ELSE IF phase_days <= 23980000 THEN "Last Quarter"
    ELSE IF phase_days <= 27660000 THEN "Waning Crescent"
    ELSE "New Moon"

\* lines 166-183
phase_name_of(phase_days) ==
    IF phase_days < 1850000 THEN "New Moon"
    ELSE IF phase_days < 5540000 THEN "Waxing Crescent"
    ELSE IF phase_days < 9230000 THEN "First Quarter"
    ELSE IF phase_days < 12910000 THEN "Waxing Gibbous"
    ELSE IF phase_days < 16600000 THEN "Full Moon"
    ELSE IF phase_days < 20290000 THEN "Waning Gibbous"
    ELSE IF phase_days < 23980000 THEN "Last Quarter"
    ELSE IF phase_days < 27660000 THEN "Waning Crescent"
    ELSE "New Moon"

\* round(x, 1) of a non-negative number of millionths, in tenths
RoundTenth(micro) == (micro + 50000) \div 100000

\* lines 155-163: the locals of the calculation
MoonLocals(at) ==
    LET days_since == days_since_new_moon(at)
        phase_days == phase_days_of(days_since)
    IN  [days_since |-> days_since,
         phase_days |-> phase_days,
         phase_angle |-> phase_angle_of(phase_days)]

\* lines 185-192: the returned dictionary; days_since // synodic_month is the
\* floor of the quotient
MoonResult(l) ==
    [phase_name |-> phase_name_of(l.phase_days),
     illumination |-> illumination_of(l.phase_angle),
     age |-> RoundTenth(l.phase_days),
     phase_angle |-> (l.phase_angle + 50) \div 100,
     next_new_moon |-> known_new_moon
                       + ((l.days_since \div synodic_month) + 1) * synodic_month,
     next_full_moon |-> known_new_moon
                        + (l.days_since \div synodic_month) * synodic_month
                        + full_moon_offset]

\* calculate_moon_phase(date), the date being at
calculate_moon_phase(at) == MoonResult(MoonLocals(at))

(***************************************************************************)
(* src/app.py: get_astronomy_data                                          *)
(* Latitudes are in mdeg, clock times minutes of the local day.            *)
(***************************************************************************)
\* lines 1699-1700
moon_phases ==
    <<"New Moon", "Waxing Crescent", "First Quarter", "Waxing Gibbous",
      "Full Moon", "Waning Gibbous", "Last Quarter", "Waning Crescent">>

\* lines 1701-1703: the phase from the day of the month; day % 29.53 in
\* hundredths of a day, int(days / 3.69), capped at 7
moon_phase_of_day(day) ==
    LET days_since == (day * 100) % 2953
        phase_index == days_since \div 369
    IN  moon_phases[(IF phase_index < 7 THEN phase_index ELSE 7) + 1]

\* lines 1706-1714: the season's planets
season_planets(month) ==
    IF month \in {12, 1, 2} THEN <<"Mars", "Jupiter", "Saturn">>
    ELSE IF month \in {3, 4, 5} THEN <<"Venus", "Mars", "Saturn">>
    ELSE IF month \in {6, 7, 8} THEN <<"Jupiter", "Saturn", "Mercury">>
    ELSE <<"Venus", "Jupiter", "Mars">>

\* lines 1716-1717: visible_planets[:2] beyond 60 degrees of latitude
polar_truncation(lat, visible_planets) ==
    IF Abs(lat) > 60000 THEN SubSeq(visible_planets, 1, 2) ELSE visible_planets

\* lines 1740-1746: the except branch
astronomy_fallback ==
    [sun |-> [sunrise |-> <<6, 21>>, sunset |-> <<20, 14>>],
     moon |-> [moonrise |-> <<22, 15>>, moonset |-> <<10, 30>>,
               phase |-> "Waxing Crescent"],
     planets |-> [visible |-> <<"Venus", "Mars", "Jupiter">>]]

\* get_astronomy_data(lat, lon): api is the answer of the sunrise-sunset
\* service (the request raising, a status other than OK, or the local
\* sunrise and sunset), month and day are datetime.now()
get_astronomy_data(lat, api, month, day) ==
    IF api.kind # "ok" THEN astronomy_fallback
    ELSE [sun |-> [sunrise |-> StrfHM(api.sunrise), sunset |-> StrfHM(api.sunset)],
          moon |-> [moonrise |-> StrfHM(api.sunrise + 13 * 60),
                    moonset |-> StrfHM(api.sunrise + 60),
                    phase |-> moon_phase_of_day(day)],
          planets |-> [visible |-> polar_truncation(lat, season_planets(month))]]

(***************************************************************************)
(* src/app.py: get_constellation_info                                      *)
(* Latitudes are whole degrees.  The texts fun_fact, how_to_spot and       *)
(* key_stars of an entry are written as the pair of the field and the      *)
(* entry's name.                                                           *)
(***************************************************************************)
\* lines 1229-1318, in insertion order
constellation_database ==
    << [name |-> "Orion", seasons |-> {12, 1, 2, 3}, latitude_range |-> <<-85, 85>>,
        best_time |-> "9 PM - 2 AM", direction |-> "South",
        brightness |-> "Very Bright", size |-> "Large"],
       [name |-> "Ursa Major (Big Dipper)", seasons |-> {3, 4, 5, 6},
        latitude_range |-> <<-30, 90>>,
        best_time |-> "All night (circumpolar)", direction |-> "North",
        brightness |-> "Very Bright", size |-> "Large"],
       [name |-> "Cassiopeia", seasons |-> {9, 10, 11, 12, 1}, latitude_range |-> <<5, 90>>,
        best_time |-> "All night (circumpolar)", direction |-> "North",
        brightness |-> "Bright", size |-> "Medium"],
       [name |-> "Leo", seasons |-> {3, 4, 5}, latitude_range |-> <<-65, 90>>,
        best_time |-> "10 PM - 2 AM", direction |-> "South",
        brightness |-> "Bright", size |-> "Large"],
       [name |-> "Scorpius", seasons |-> {6, 7, 8}, latitude_range |-> <<-90, 40>>,
        best_time |-> "10 PM - 1 AM", direction |-> "South",
        brightness |-> "Bright", size |-> "Large"],
       [name |-> "Cygnus (Northern Cross)", seasons |-> {6, 7, 8, 9},
        latitude_range |-> <<-40, 90>>,
        best_time |-> "9 PM - 3 AM", direction |-> "Overhead",
        brightness |-> "Very Bright", size |-> "Large"],
       [name |-> "Taurus", seasons |-> {11, 12, 1, 2}, latitude_range |-> <<-65, 90>>,
        best_time |-> "8 PM - 1 AM", direction |-> "South-Southwest",
        brightness |-> "Bright", size |-> "Large"],
       [name |-> "Andromeda", seasons |-> {9, 10, 11, 12}, latitude_range |-> <<-40, 90>>,
        best_time |-> "9 PM - 2 AM", direction |-> "East to Overhead",
        brightness |-> "Moderate", size |-> "Large"] >>

\* constellation_database.get(name, {})
database_get(name) ==
    CHOOSE k \in 1..Len(constellation_database) : constellation_database[k].name = name

\* lines 1326-1335 and 1350-1359: the entry built for the name from the data
info_entry(name, data) ==
    [name |-> name,
     fun_fact |-> <<"fun_fact", data.name>>,
     how_to_spot |-> <<"how_to_spot", data.name>>,
     key_stars |-> <<"key_stars", data.name>>,
     best_time |-> data.best_time,
     direction |-> data.direction,
     brightness |-> data.brightness,
     size |-> data.size]

\* lines 1323-1325: the test of one database entry
info_matches(data, latitude, month) ==
    /\ month \in data.seasons
    /\ data.latitude_range[1] <= latitude
    /\ latitude <= data.latitude_range[2]

\* lines 1320-1335: the matching entries in database order
RECURSIVE info_matching(_, _, _)
info_matching(k, latitude, month) ==
    IF k = 0 THEN <<>>
    ELSE LET data == constellation_database[k]
             before == info_matching(k - 1, latitude, month)
         IN  IF info_matches(data, latitude, month)
             THEN Append(before, info_entry(data.name, data))
             ELSE before

\* lines 1340-1347: the data of the season's default
info_default(month) ==
    IF month \in {12, 1, 2} THEN constellation_database[database_get("Orion")]
    ELSE IF month \in {3, 4, 5} THEN constellation_database[database_get("Leo")]
    ELSE IF month \in {6, 7, 8}
         THEN constellation_database[database_get("Cygnus (Northern Cross)")]
    ELSE constellation_database[database_get("Andromeda")]

\* get_constellation_info(latitude, month); the default entry is named
\* list(constellation_database.keys())[0]
get_constellation_info(latitude, month) ==
    LET found == info_matching(Len(constellation_database), latitude, month)
        visible == IF found = <<>>
                   THEN <<info_entry(constellation_database[1].name, info_default(month))>>
                   ELSE found
    IN  SubSeq(visible, 1, IF Len(visible) < 5 THEN Len(visible) ELSE 5)

(***************************************************************************)
(* src/app.py: get_iss_passes                                              *)
(* Latitudes are in mdeg; a rise time is a minute count, formatted as its  *)
(* clock time and its day.  The risetime of an entry is the pair of its    *)
(* literal text and its clock time, <<>> when the entry carries no time.   *)
(***************************************************************************)
\* the single entry returned when no pass is listed
pass_placeholder(text, date_text, message) ==
    <<[risetime |-> [text |-> text, clock |-> <<>>],
       date |-> date_text,
       duration |-> 0,
       message |-> message]>>

\* lines 1777-1786: the entry of one pass of the answer
pass_entry(pass_data) ==
    [risetime |-> [text |-> "", clock |-> StrfHM(pass_data.risetime)],
     date |-> <<"day", pass_data.risetime \div 1440>>,
     duration |-> pass_data.duration,
     message |-> "success"]

\* data['response'] handed on whole
first_passes_unsliced(response) == response

\* line 1776: data['response'][:3]
first_passes(response) ==
    SubSeq(response, 1, IF Len(response) < 3 THEN Len(response) ELSE 3)

\* get_iss_passes(lat, lon, city_name): the list returned and the number of
\* HTTP requests issued; api is the answer of the pass service.  A pass
\* without its risetime or duration raises inside the loop.
get_iss_passes(lat, city_name, api) ==
    LET unavailable == pass_placeholder("---", "---", "ISS data temporarily unavailable")
    IN  IF Abs(lat) > 80000
        THEN [passes |-> pass_placeholder("N/A", "N/A",
                                          <<"ISS passes not visible from", city_name>>),
              http_requests |-> 0]
        ELSE [http_requests |-> 1,
              passes |->
                 IF api.kind = "raise" THEN unavailable
                 ELSE IF api.status # 200 THEN unavailable
                 ELSE IF ~api.json THEN unavailable
                 ELSE IF api.message = "success" /\ api.has_response
                      THEN LET taken == first_passes(api.response)
                           IN  IF \E k \in 1..Len(taken) : ~taken[k].complete
                               THEN unavailable
                               ELSE IF taken = <<>>
                               THEN pass_placeholder("No passes", "Check back later",
                                        <<"No visible ISS passes in the next few days for",
                                          city_name>>)
                               ELSE [k \in 1..Len(taken) |-> pass_entry(taken[k])]
                      ELSE pass_placeholder("Limited visibility", "Rare passes",
                                            <<"ISS passes are rare for", city_name>>)]

(***************************************************************************)
(* src/app.py: AstronomyQueryProcessor.process_query (lines 122-181) and   *)
(* _fallback_response (lines 183-209).  A query is its text and whether    *)
(* its lower-cased text mentions "iss" or "space station"; chain is the    *)
(* outcome of astronomy_chain.run and llm the outcome of llm.invoke.  A    *)
(* result is the value handed back (a string, or an exception leaving the  *)
(* method) and the calls to the language model made on the way.            *)
(***************************************************************************)
\* lines 1590-1599: the weather record used whenever the service fails
weather_fallback ==
    [current |-> [temp |-> 20, clouds |-> 30,
                  weather |-> <<[main |-> "Clear",
                                 description |-> "Weather data unavailable"]>>]]

\* lines 141-167: the context built from the current data
context_parts(query, weather, astronomy, iss_passes) ==
    <<[part |-> "Weather", clouds |-> weather.current.clouds,
       temp |-> weather.current.temp]>>
    \o <<[part |-> "Moon phase", phase |-> astronomy.moon.phase]>>
    \o (IF astronomy.planets.visible # <<>>
        THEN <<[part |-> "Visible planets", planets |-> astronomy.planets.visible]>>
        ELSE <<>>)
    \o <<[part |-> "Sunset", sunset |-> astronomy.sun.sunset]>>
    \o (IF query.mentions_iss /\ Len(iss_passes) > 0 /\ iss_passes[1].duration > 0
        THEN <<[part |-> "Next ISS pass", date |-> iss_passes[1].date,
                risetime |-> iss_passes[1].risetime]>>
        ELSE <<>>)

\* lines 203-209: the fixed apology
apology == [kind |-> "str", source |-> "apology", context |-> <<>>]

\* the direct call outside any try block
_fallback_response_unguarded(llm) ==
    [value |-> IF llm = "raise" THEN [kind |-> "raise", source |-> "llm", context |-> <<>>]
               ELSE [kind |-> "str", source |-> "llm", context |-> <<>>],
     calls |-> <<"llm">>]

\* lines 186-209: result.content, or str(result) when it has no content
_fallback_response(llm) ==
    [value |-> IF llm = "raise" THEN apology
               ELSE [kind |-> "str", source |-> "llm", context |-> <<>>],
     calls |-> <<"llm">>]

\* lines 139-181
process_query(query, weather, astronomy, iss_passes, chain, llm) ==
    LET context == context_parts(query, weather, astronomy, iss_passes)
    IN  IF chain = "raise"
        THEN [value |-> _fallback_response(llm).value,
              calls |-> <<"chain">> \o _fallback_response(llm).calls]
        ELSE [value |-> [kind |-> "str", source |-> "chain", context |-> context],
              calls |-> <<"chain">>]

(***************************************************************************)
(* src/app.py: main, the ISS Tracking view (lines 3002-3070).  iss_vis is  *)
(* the record iss_visibility returned and place the <<city, country>> of   *)
(* get_city_from_coords.  The view either renders its location card or     *)
(* raises at the line that reads a local.                                  *)
(***************************************************************************)
iss_tracking_view(iss_vis, place) ==
    LET named == IF "iss_lat" \in DOMAIN iss_vis THEN place ELSE <<"Unknown", "Unknown">>
    IN  IF iss_vis.visible
        THEN \* line 3008: iss_lat is a local of main assigned only at line 3043
             [kind |-> "raise", error |-> "UnboundLocalError", line |-> 3008]
        ELSE IF "iss_lat" \in DOMAIN iss_vis /\ "iss_lon" \in DOMAIN iss_vis
        THEN [kind |-> "rendered",
              iss_lat |-> iss_vis.iss_lat,
              iss_lon |-> iss_vis.iss_lon,
              visible_location_text |->
                 IF named[1] # "Unknown" /\ named[2] # "Unknown" THEN named
                 ELSE <<>>]
        ELSE \* lines 3043-3044 and 3068: 'N/A' formatted with :.2f
             [kind |-> "raise", error |-> "ValueError", line |-> 3068]

(***************************************************************************)
(* src/app.py: main, the AI processor initialisation (lines 2161-2176) and *)
(* the Cosmic Oracle view (lines 3108-3470).  A question is its text, the  *)
(* emoji its label starts with, and the words the answering code looks     *)
(* for: mentions_iss ("iss" or "space station"), planets ("planet" with    *)
(* "visible" or "tonight") and moon ("moon" with "phase").                 *)
(***************************************************************************)
\* ai_enabled raised before the processor is built
init_ai_enabled_first(s, constructor) ==
    IF "ai_processor" \in s.keys THEN s
    ELSE IF s.module.LANGCHAIN_AVAILABLE /\ s.module.OPENAI_API_KEY
         THEN IF constructor = "ok"
              THEN [s EXCEPT !.ai_enabled = TRUE,
                             !.keys = @ \cup {"ai_enabled", "ai_processor"}]
              ELSE [s EXCEPT !.ai_enabled = TRUE, !.keys = @ \cup {"ai_enabled"}]
         ELSE [s EXCEPT !.ai_enabled = FALSE, !.keys = @ \cup {"ai_enabled"}]

\* lines 2162-2176; constructor is the outcome of AstronomyQueryProcessor(...)
init_ai(s, constructor) ==
    IF "ai_processor" \in s.keys THEN s
    ELSE IF s.module.LANGCHAIN_AVAILABLE /\ s.module.OPENAI_API_KEY
            /\ constructor = "ok"
         THEN [s EXCEPT !.ai_enabled = TRUE,
                        !.keys = @ \cup {"ai_enabled", "ai_processor"}]
         ELSE [s EXCEPT !.ai_enabled = FALSE, !.keys = @ \cup {"ai_enabled"}]

Question(emoji, text, mentions_iss, planets, moon) ==
    [emoji |-> emoji, text |-> text, mentions_iss |-> mentions_iss,
     planets |-> planets, moon |-> moon]

\* lines 211-240: AstronomyQueryProcessor.get_suggested_queries
get_suggested_queries(month) ==
    (IF month \in {12, 1, 2}
     THEN <<Question("", "When can I see the Orion Nebula?", FALSE, FALSE, FALSE),
            Question("", "How do I find the Winter Triangle?", FALSE, FALSE, FALSE)>>
     ELSE IF month \in {6, 7, 8}
     THEN <<Question("", "How can I see the Summer Triangle?", FALSE, FALSE, FALSE),
            Question("", "When is the best time to observe Saturn's rings?",
                     FALSE, FALSE, FALSE)>>
     ELSE <<Question("", "What's the best time to see the Pleiades?", FALSE, FALSE, FALSE),
            Question("", "Where is the center of our galaxy?", FALSE, FALSE, FALSE)>>)
    \o <<Question("", "Can you explain what a nebula is?", FALSE, FALSE, FALSE),
         Question("", "How do I choose my first telescope?", FALSE, FALSE, FALSE)>>

\* lines 3211-3216: the questions offered without the AI
standard_questions ==
    <<Question("planet", "What planets are visible tonight?", FALSE, TRUE, FALSE),
      Question("moon", "What's the moon phase?", FALSE, FALSE, TRUE),
      Question("saucer", "When's the next ISS pass?", TRUE, FALSE, FALSE),
      Question("star", "Is tonight good for stargazing?", FALSE, FALSE, FALSE)>>

\* line 3339: the label without its emoji
strip_emoji(label) ==
    IF label.emoji \in {"robot", "planet", "moon", "saucer", "star"}
    THEN [label EXCEPT !.emoji = ""]
    ELSE label

\* lines 2116-2150: the rule-based answer
generate_cosmic_answer_fallback(question, weather, astronomy) ==
    IF question.planets
    THEN [kind |-> "str", source |-> "rules",
          context |-> <<"planets", astronomy.planets.visible>>]
    ELSE IF question.moon
    THEN [kind |-> "str", source |-> "rules",
          context |-> <<"moon", astronomy.moon.phase, astronomy.moon.moonrise,
                        astronomy.moon.moonset>>]
    ELSE [kind |-> "str", source |-> "rules",
          context |-> <<"highlights", astronomy.planets.visible, astronomy.moon.phase,
                        weather.current.weather[1].description,
                        weather.current.clouds>>]

\* lines 3313-3327, 3341-3355, 3400-3414: the answer and its ai_powered flag;
\* data is the weather, astronomy and passes main fetched for the location
oracle_answer(s, question, data, chain, llm) ==
    IF s.ai_enabled
    THEN IF "ai_processor" \in s.keys
         THEN [raised |-> "",
               answer |-> process_query(question, data.weather, data.astronomy,
                                        data.iss_passes, chain, llm).value,
               ai_powered |-> TRUE]
         ELSE [raised |-> "KeyError", answer |-> <<>>, ai_powered |-> TRUE]
    ELSE [raised |-> "",
          answer |-> generate_cosmic_answer_fallback(question, data.weather,
                                                     data.astronomy),
          ai_powered |-> FALSE]

\* the entry put in front of the history
prepend_chat(chat_history, entry) == <<entry>> \o chat_history

\* lines 3329-3333, 3357-3361, 3416-3420: chat_history.append
append_chat(chat_history, entry) == Append(chat_history, entry)

\* lines 3437-3469: the latest response, then the earlier ones, newest first
chat_display(chat_history) ==
    [kind |-> "shown",
     latest |-> IF chat_history = <<>> THEN <<>>
                ELSE <<chat_history[Len(chat_history)]>>,
     previous |-> [k \in 1..(IF chat_history = <<>> THEN 0 ELSE Len(chat_history) - 1) |->
                      chat_history[Len(chat_history) - k]]]

\* a question answered and stored, then st.rerun()
oracle_ask(s, question, data, chain, llm) ==
    LET a == oracle_answer(s, question, data, chain, llm)
    IN  IF a.raised # ""
        THEN [session |-> s, result |-> [kind |-> "raise", error |-> a.raised]]
        ELSE [session |-> [s EXCEPT !.chat_history =
                                       append_chat(@, [question |-> question,
                                                       answer |-> a.answer,
                                                       ai_powered |-> a.ai_powered])],
              result |-> [kind |-> "rerun"]]

\* lines 3130-3469: one run of the view; event is what the user did
oracle_view(s0, event, month, data, chain, llm) ==
    LET s == [s0 EXCEPT !.keys = @ \cup {"chat_history"}]
        counted == [s EXCEPT !.keys = @ \cup {"input_counter"}]
    IN  IF s.ai_enabled /\ "ai_processor" \notin s.keys
        THEN \* line 3205
             [session |-> s, result |-> [kind |-> "raise", error |-> "KeyError"]]
        ELSE LET quick_questions ==
                     IF s.ai_enabled THEN SubSeq(get_suggested_queries(month), 1, 4)
                     ELSE standard_questions
             IN  IF event.kind = "quick"
                 THEN oracle_ask(s,
                                 IF event.button % 2 = 1 THEN quick_questions[event.button]
                                 ELSE strip_emoji(quick_questions[event.button]),
                                 data, chain, llm)
                 ELSE IF event.kind = "submit" /\ event.question.text # ""
                 THEN oracle_ask(counted, event.question, data, chain, llm)
                 ELSE IF event.kind = "clear"
                 THEN [session |-> [counted EXCEPT !.chat_history = <<>>,
                                                   !.input_counter = @ + 1],
                       result |-> [kind |-> "rerun"]]
                 ELSE [session |-> counted, result |-> chat_display(counted.chat_history)]

(***************************************************************************)
(* src/app.py: get_visible_constellations                                  *)
(* Times are whole minutes (ephem dates), altitudes whole degrees,         *)
(* azimuths tenths of a degree.                                            *)
(***************************************************************************)
\* constellation_data, in insertion order
constellation_data ==
    << [name |-> "Orion", star |-> "Rigel",
        description |-> "The Hunter - look for three stars in a belt"],
       [name |-> "Ursa Major", star |-> "Dubhe",
        description |-> "Big Dipper - seven bright stars in a ladle shape"],
       [name |-> "Leo", star |-> "Regulus",
        description |-> "The Lion - backwards question mark forms the head"],
       [name |-> "Scorpius", star |-> "Antares",
        description |-> "The Scorpion - curved tail with red Antares"],
       [name |-> "Cassiopeia", star |-> "Schedar",
        description |-> "The Queen - distinctive W or M shape"],
       [name |-> "Cygnus", star |-> "Deneb",
        description |-> "Northern Cross - flying along the Milky Way"],
       [name |-> "Taurus", star |-> "Aldebaran",
        description |-> "The Bull - V-shaped face with orange eye"],
       [name |-> "Andromeda", star |-> "Alpheratz",
        description |-> "The Princess - home to Andromeda Galaxy M31"],
       [name |-> "Perseus", star |-> "Mirfak",
        description |-> "The Hero - contains variable star Algol"],
       [name |-> "Gemini", star |-> "Pollux",
        description |-> "The Twins - Castor and Pollux mark their heads"],
       [name |-> "Lyra", star |-> "Vega",
        description |-> "The Lyre - brilliant Vega in Summer Triangle"],
       [name |-> "Bootes", star |-> "Arcturus",
        description |-> "The Herdsman - kite shape with orange Arcturus"],
       [name |-> "Virgo", star |-> "Spica",
        description |-> "The Virgin - bright blue-white Spica"],
       [name |-> "Aquila", star |-> "Altair",
        description |-> "The Eagle - Altair in Summer Triangle"],
       [name |-> "Pegasus", star |-> "Markab",
        description |-> "The Winged Horse - Great Square of Pegasus"],
       [name |-> "Sagittarius", star |-> "Kaus Australis",
        description |-> "The Archer - teapot asterism points to galactic center"] >>

CatalogSize == Len(constellation_data)

\* ephem.hour, in minutes
EphemHour == 60

\* The ephemeris is an external collaborator.  A sky gives every catalog star
\* the altitude it reaches at transit and the time of day of its transit; the
\* star sinks 15 degrees for every hour away from transit.
SkyPeaks ==
    << <<72, 58, 72, 33, 64, 75, 76, 11, 10, 80, 9, 70, 49, 51, 45, 26>>,
       <<10, 8, 5, 10, 9, 3, 10, 7, 6, 10, 2, 9, 10, 4, 1, 10>>,
       <<60, 60, 60, 60, 60, 60, 60, 60, 60, 60, 60, 60, 60, 60, 60, 60>> >>

Transit(sky, i) == ((i - 1) * 90 + sky.shift) % 1440

\* star.compute(observer); float(star.alt) * 180 / ephem.pi at observer.date = t
Altitude(sky, i, t) ==
    LET away == Abs((t % 1440) - Transit(sky, i))
        circ == IF away > 720 THEN 1440 - away ELSE away
        alt == SkyPeaks[sky.profile][i] - circ \div 4
    IN  IF alt < -90 THEN -90 ELSE alt

\* float(star.az) * 180 / ephem.pi at observer.date = t, in tenths of a degree
Azimuth(sky, i, t) == (i * 225 + ((t % 1440) * 5) \div 2) % 3600

\* ephem.localtime: the ephem date (UTC) as local clock time
localtime(t, utc_offset) == t + utc_offset

\* f"{x:.0f}" of a value in tenths: rounded to a whole number, halves to even
FormatWhole(tenths) ==
    LET q == tenths \div 10
        r == tenths % 10
    IN  IF r < 5 THEN q
        ELSE IF r > 5 THEN q + 1
        ELSE IF q % 2 = 0 THEN q ELSE q + 1

\* the compass direction with the sector boundaries in the earlier sector
DirectionUpperInclusive(current_az) ==
    IF 3375 < current_az \/ current_az <= 225 THEN "N"
    ELSE IF current_az <= 675 THEN "NE"
    ELSE IF current_az <= 1125 THEN "E"
    ELSE IF current_az <= 1575 THEN "SE"
    ELSE IF current_az <= 2025 THEN "S"
    ELSE IF current_az <= 2475 THEN "SW"
    ELSE IF current_az <= 2925 THEN "W"
    ELSE "NW"

\* lines 1501-1517: compass direction of an azimuth in tenths of a degree
Direction(current_az) ==
    IF 3375 <= current_az \/ current_az < 225 THEN "N"
    ELSE IF 225 <= current_az /\ current_az < 675 THEN "NE"
    ELSE IF 675 <= current_az /\ current_az < 1125 THEN "E"
    ELSE IF 1125 <= current_az /\ current_az < 1575 THEN "SE"
    ELSE IF 1575 <= current_az /\ current_az < 2025 THEN "S"
    ELSE IF 2025 <= current_az /\ current_az < 2475 THEN "SW"
    ELSE IF 2475 <= current_az /\ current_az < 2925 THEN "W"
    ELSE "NW"

\* the loop body with >= in the comparison against max_altitude
SampleUpdateLatest(altitude_deg, t, cur, utc_offset) ==
    IF altitude_deg > 10
    THEN IF altitude_deg >= cur.max_altitude
         THEN [max_altitude |-> altitude_deg, best_time |-> <<localtime(t, utc_offset)>>,
               is_visible_tonight |-> TRUE]
         ELSE [cur EXCEPT !.is_visible_tonight = TRUE]
    ELSE cur

\* lines 1485-1489: one sample of the loop body
SampleUpdate(altitude_deg, t, cur, utc_offset) ==
    IF altitude_deg > 10
    THEN IF altitude_deg > cur.max_altitude
         THEN [max_altitude |-> altitude_deg, best_time |-> <<localtime(t, utc_offset)>>,
               is_visible_tonight |-> TRUE]
         ELSE [cur EXCEPT !.is_visible_tonight = TRUE]
    ELSE cur

\* lines 1495-1534: the record of a star that is visible tonight
ConstellationRecord(i, sky, now, max_alt, best) ==
    LET current_alt == Altitude(sky, i, now)
        current_az == Azimuth(sky, i, now)
        direction == Direction(current_az)
    IN  [constellation |-> constellation_data[i].name,
         star |-> constellation_data[i].star,
         altitude |-> IF current_alt > 0
                      THEN [text |-> "now", degrees |-> current_alt,
                            direction |-> direction]
                      ELSE [text |-> "Rises later", degrees |-> max_alt,
                            direction |-> ""],
         azimuth |-> FormatWhole(current_az),
         best_time |-> IF best # <<>> THEN StrfHM(best[1]) ELSE <<>>,
         description |-> constellation_data[i].description,
         max_altitude |-> max_alt,
         current_altitude |-> current_alt]

\* list.sort(key=max_altitude, reverse=True): stable, descending
RECURSIVE InsertDescending(_, _)
InsertDescending(sorted, x) ==
    IF sorted = <<>> THEN <<x>>
    ELSE IF Head(sorted).max_altitude >= x.max_altitude
    THEN <<Head(sorted)>> \o InsertDescending(Tail(sorted), x)
    ELSE <<x>> \o sorted

RECURSIVE SortByMaxAltitude(_)
SortByMaxAltitude(list) ==
    IF list = <<>> THEN <<>>
    ELSE InsertDescending(SortByMaxAltitude(SubSeq(list, 1, Len(list) - 1)),
                          list[Len(list)])

\* list[:n]
Take(list, n) == SubSeq(list, 1, IF Len(list) < n THEN Len(list) ELSE n)

\* lines 1543-1545: the sorting values are removed from each entry
PopSortingValues(r) ==
    [constellation |-> r.constellation, star |-> r.star, altitude |-> r.altitude,
     azimuth |-> r.azimuth, best_time |-> r.best_time, description |-> r.description]

\* the cap of 10 applied before the sort
Top10CutFirst(list) == SortByMaxAltitude(Take(list, 10))

\* lines 1540 and 1547: sort, then keep the first 10
Top10(list) == Take(SortByMaxAltitude(list), 10)

(***************************************************************************)
(* src/app.py: geocode_location and the location part of main              *)
(* A city is the text typed, with the length of its stripped text and the  *)
(* special characters it contains.  Coordinates are in 1/10000 degree; a   *)
(* value that may be None is <<>> for None and <<v>> otherwise.            *)
(***************************************************************************)
\* lines 2415 and 2440: the characters the sidebar rejects
sidebar_invalid_chars == {"@", "#", "$", "%", "^", "&", "*"}

\* line 1105: the characters geocode_location rejects
geocode_invalid_chars ==
    {"@", "#", "$", "%", "^", "&", "*", "=", "+", "[", "]", "{", "}", "\\", "|", "<", ">"}

\* return None, None, None, status
geocode_failure(status) ==
    [lat |-> <<>>, lon |-> <<>>, display_name |-> None, status |-> status]

\* geocode_location(location_name); net is the answer of the geocoding
\* service: a place found, an empty list, or the request failing
geocode_location(location_name, net) ==
    IF location_name.length = 0 THEN geocode_failure("empty")
    ELSE IF location_name.length < 2 THEN geocode_failure("too_short")
    ELSE IF location_name.specials \cap geocode_invalid_chars # {}
         THEN geocode_failure("invalid_chars")
    ELSE IF net.kind = "found"
         THEN [lat |-> net.lat, lon |-> net.lon, display_name |-> net.display_name,
               status |-> "success"]
    ELSE IF net.kind = "empty" THEN geocode_failure("not_found")
    ELSE geocode_failure(net.kind)

\* lines 2328-2329: current_city of a fresh session
init_current_city(s) ==
    IF "current_city" \in s.keys THEN s
    ELSE [s EXCEPT !.keys = @ \cup {"current_city"}]

\* a submission whose failed lookup also takes the typed city as current
city_submitted_overwriting(s, city, net) ==
    IF city.text # "" /\ city.text # s.current_city.text
    THEN IF city.length < 2 THEN [session |-> s, rerun |-> FALSE]
         ELSE IF city.specials \cap sidebar_invalid_chars # {}
              THEN [session |-> s, rerun |-> FALSE]
         ELSE LET g == geocode_location(city, net)
              IN  IF g.status = "success" \/ g.status = "uncertain"
                  THEN [session |-> [s EXCEPT !.current_city = city,
                                              !.validated_location = g.display_name,
                                              !.lat = g.lat,
                                              !.lon = g.lon,
                                              !.location_valid = TRUE,
                                              !.keys = @ \cup {"validated_location", "lat",
                                                               "lon", "location_valid"}],
                        rerun |-> TRUE]
                  ELSE [session |-> [s EXCEPT !.current_city = city,
                                              !.location_valid = FALSE,
                                              !.keys = @ \cup {"location_valid"}],
                        rerun |-> FALSE]
    ELSE [session |-> s, rerun |-> FALSE]

\* lines 2406-2430 (and 2434-2455 for the button): the city typed differs
\* from current_city; a success stores the location and reruns the script
city_submitted(s, city, net) ==
    IF city.text # "" /\ city.text # s.current_city.text
    THEN IF city.length < 2 THEN [session |-> s, rerun |-> FALSE]
         ELSE IF city.specials \cap sidebar_invalid_chars # {}
              THEN [session |-> s, rerun |-> FALSE]
         ELSE LET g == geocode_location(city, net)
              IN  IF g.status = "success" \/ g.status = "uncertain"
                  THEN [session |-> [s EXCEPT !.current_city = city,
                                              !.validated_location = g.display_name,
                                              !.lat = g.lat,
                                              !.lon = g.lon,
                                              !.location_valid = TRUE,
                                              !.keys = @ \cup {"validated_location", "lat",
                                                               "lon", "location_valid"}],
                        rerun |-> TRUE]
                  ELSE [session |-> [s EXCEPT !.location_valid = FALSE,
                                              !.keys = @ \cup {"location_valid"}],
                        rerun |-> FALSE]
    ELSE [session |-> s, rerun |-> FALSE]

\* lines 2396-2457: the text input, then the button, which repeats the same
\* steps with the same (cached) answer of the geocoder when it is pressed
sidebar_location(s, city, net, pressed) ==
    LET typed == city_submitted(init_current_city(s), city, net)
    IN  IF typed.rerun \/ ~pressed THEN typed
        ELSE city_submitted(typed.session, city, net)

\* lines 2508-2509 and 2516-2517
austin_default ==
    [lat |-> <<302672>>, lon |-> <<-977431>>, display_name |-> "Austin, TX, USA"]

\* lines 2503-2509 and 2511-2517: the stored location, or the default
stored_location(s) ==
    IF "lat" \in s.keys /\ "lon" \in s.keys
    THEN [lat |-> s.lat, lon |-> s.lon,
          display_name |-> IF "validated_location" \in s.keys
                           THEN s.validated_location ELSE "Austin, TX, USA"]
    ELSE austin_default

\* lines 2500-2517 taking the geocoder's answer whatever its status
resolve_location_unchecked(s, net) ==
    IF ("location_valid" \in s.keys) => s.location_valid
    THEN LET g == geocode_location(s.current_city, net)
         IN  [lat |-> g.lat, lon |-> g.lon, display_name |-> g.display_name]
    ELSE stored_location(s)

\* lines 2500-2517: lat, lon and display_name handed to the fetchers
resolve_location(s, net) ==
    IF ("location_valid" \in s.keys) => s.location_valid
    THEN LET g == geocode_location(s.current_city, net)
         IN  IF g.status # "success" /\ g.status # "uncertain"
             THEN stored_location(s)
             ELSE [lat |-> g.lat, lon |-> g.lon, display_name |-> g.display_name]
    ELSE stored_location(s)

(***************************************************************************)
(* Inputs.                                                                 *)
(***************************************************************************)
\* observer positions <<lat, lon>> in mdeg
Observers == {<<0, 0>>, <<30267, -97743>>, <<-33900, 151200>>}

\* satellite sub-points <<lat, lon>> in mdeg; from <<0, 0>> they lie at
\* 0, 500, 1000, 1002, 2200 and 2201 km and farther
IssPoints == {<<0, 0>>, <<4500, 0>>, <<9000, 0>>, <<9020, 0>>, <<19800, 0>>,
              <<19805, 0>>, <<30267, -97743>>, <<45000, 120000>>, <<-51500, 179000>>}

\* answers of the position feed
FeedBodies ==
    {[json |-> FALSE, has_position |-> FALSE, keys |-> {}, latitude |-> 0, longitude |-> 0],
     [json |-> TRUE, has_position |-> FALSE, keys |-> {}, latitude |-> 0, longitude |-> 0],
     [json |-> TRUE, has_position |-> TRUE, keys |-> {"latitude"},
      latitude |-> 45000, longitude |-> 0]}
    \cup {[json |-> TRUE, has_position |-> TRUE, keys |-> {"latitude", "longitude"},
           latitude |-> p[1], longitude |-> p[2]] : p \in IssPoints}

Feeds ==
    {FeedRaises}
    \cup {[kind |-> "http", status |-> st, json |-> b.json, has_position |-> b.has_position,
           keys |-> b.keys, latitude |-> b.latitude, longitude |-> b.longitude] :
          st \in {200, 500}, b \in FeedBodies}

\* time.time() in seconds and datetime.now().hour
ClockSeconds == {0, 1571, 4712, 100000}
ClockHours == {3, 12}

\* latitudes and longitudes in mdeg and days of the year for the solar approximator
SunLatitudes == {-90000, -70000, -45000, 0, 30267, 45000, 66000, 67000, 80000, 90000}
SunLongitudes == {-180000, -97743, -90000, -15000, 0, 15000, 90000, 180000}
SunDays == {1, 80, 81, 172, 266, 355}

\* the longest night window of the model, in hours
MaxWindowHours == 25

\* night windows: sunset (minutes) and sunrise - sunset (minutes)
Sunsets == {1080, 1235}
WindowLengths == {-60, 0, 1, 60, 61, 600, MaxWindowHours * 60}

\* how long before sunset the scan is run (sunset is the next setting after now)
NowLeads == {1, 600}

Skies == [profile : 1..Len(SkyPeaks), shift : {0, 300}]

\* the stars whose computation raises
FailingSets == {{}, {2, 5}, 1..CatalogSize}

UtcOffsets == {0, -300}

\* how many synodic months before and after the reference new moon are queried
MoonCycles == 2

\* phase ages in millionths of a day: the bin boundaries and their
\* predecessors, the quarter, the half month, 14.765 and 14.8 days, the last
\* instant of the month
MoonAges ==
    {0, 1, 1849999, 1850000, 5539999, 5540000, 7382647, 9229999, 9230000,
     12909999, 12910000, 14765000, 14765001, 14765294, 14800000, 16599999, 16600000,
     20289999, 20290000, 23979999, 23980000, 27659999, 27660000, 29500000, 29530587}

\* query dates, before and after the reference new moon
MoonDates == {known_new_moon + k * synodic_month + a : k \in -MoonCycles..MoonCycles,
                                                      a \in MoonAges}

\* get_astronomy_data: latitudes in mdeg, the answers of the sunrise-sunset
\* service, datetime.now().month and .day
AstroLatitudes == {-90000, -60001, -60000, 0, 10000, 60000, 60001, 65000}
SunApiAnswers ==
    {[kind |-> "raise", sunrise |-> 0, sunset |-> 0],
     [kind |-> "status", sunrise |-> 0, sunset |-> 0],
     [kind |-> "ok", sunrise |-> 381, sunset |-> 1214],
     [kind |-> "ok", sunrise |-> 700, sunset |-> 860]}
Months == 1..12
DaysOfMonth == {1, 15, 30, 31}

\* get_constellation_info: latitudes in whole degrees around the range ends
InfoLatitudes == {-90, -86, -85, -66, -65, -41, -40, -31, -30, 0, 4, 5, 30, 40, 41,
                  85, 86, 90}

\* points <<lat, lon>> in mdeg for the two distance functions
GeoPoints == Observers \cup IssPoints
                \cup {<<90000, 0>>, <<-90000, 45000>>, <<0, 180000>>, <<0, -180000>>}

\* the largest ground distance handed to _calculate_elevation_angle, in
\* hundreds of km
MaxDistanceHundreds == 200

\* distances in km: every km up to 60, then every 100 km
ElevationDistances == 0..60 \cup {100 * k : k \in 1..MaxDistanceHundreds}

\* azimuths in tenths of a degree: the whole circle
CompassAzimuths == 0..3599

\* the city typed into the sidebar
CityInputs ==
    {[text |-> "Austin, TX", length |-> 10, specials |-> {}],
     [text |-> "London, UK", length |-> 10, specials |-> {}],
     [text |-> "Tokyo", length |-> 5, specials |-> {}],
     [text |-> "", length |-> 0, specials |-> {}],
     [text |-> "  ", length |-> 0, specials |-> {}],
     [text |-> "L", length |-> 1, specials |-> {}],
     [text |-> "Rome@", length |-> 5, specials |-> {"@"}],
     [text |-> "Rome=", length |-> 5, specials |-> {"="}]}

\* answers of the geocoding service
GeocoderAnswers ==
    {[kind |-> "found", lat |-> <<515074>>, lon |-> <<-1278>>,
      display_name |-> "London, United Kingdom"],
     [kind |-> "found", lat |-> <<356764>>, lon |-> <<1396500>>,
      display_name |-> "Tokyo, Japan"],
     [kind |-> "found", lat |-> <<302711>>, lon |-> <<-977437>>,
      display_name |-> "Austin, Texas, USA"]}
    \cup {[kind |-> k, lat |-> <<>>, lon |-> <<>>, display_name |-> None] :
          k \in {"empty", "timeout", "network_error", "error"}}

\* st.session_state of a fresh session: no key is set; current_city holds the
\* value lines 2328-2329 give it, ai_enabled the value of
\* get('ai_enabled', False), chat_history and input_counter the values their
\* first use gives them.  module holds LANGCHAIN_AVAILABLE (line 23) and
\* whether OPENAI_API_KEY (line 58) is set, in the process serving the
\* session; they are read at the first run of main.
FreshSession ==
    [keys |-> {},
     current_city |-> [text |-> "Austin, TX", length |-> 10, specials |-> {}],
     validated_location |-> "",
     lat |-> <<>>,
     lon |-> <<>>,
     location_valid |-> TRUE,
     ai_enabled |-> FALSE,
     chat_history |-> <<>>,
     input_counter |-> 0,
     module |-> [LANGCHAIN_AVAILABLE |-> FALSE, OPENAI_API_KEY |-> FALSE]]

\* get_iss_passes: latitudes in mdeg, city names, answers of the pass service
PassLatitudes == {-90000, -80001, -80000, 0, 30267, 80000, 80001, 85000}
PassCities == {"", "Austin, TX"}

GoodPass(t, d) == [risetime |-> t, duration |-> d, complete |-> TRUE]
BadPass == [risetime |-> 0, duration |-> 0, complete |-> FALSE]

PassResponses ==
    {<<>>,
     <<GoodPass(1290, 300)>>,
     <<GoodPass(1290, 300), GoodPass(1385, 0), GoodPass(2900, 640)>>,
     <<GoodPass(1290, 300), GoodPass(1385, 620), GoodPass(2900, 640),
       GoodPass(2995, 410), GoodPass(4400, 590)>>,
     <<GoodPass(1290, 300), BadPass, GoodPass(2900, 640)>>,
     <<GoodPass(1290, 300), GoodPass(1385, 620), GoodPass(2900, 640), BadPass>>}

PassApiAnswers ==
    {[kind |-> "raise", status |-> 0, json |-> FALSE, message |-> "", has_response |-> FALSE,
      response |-> <<>>],
     [kind |-> "http", status |-> 500, json |-> TRUE, message |-> "success",
      has_response |-> TRUE, response |-> <<GoodPass(1290, 300)>>],
     [kind |-> "http", status |-> 200, json |-> FALSE, message |-> "",
      has_response |-> FALSE, response |-> <<>>],
     [kind |-> "http", status |-> 200, json |-> TRUE, message |-> "failure",
      has_response |-> TRUE, response |-> <<GoodPass(1290, 300)>>],
     [kind |-> "http", status |-> 200, json |-> TRUE, message |-> "success",
      has_response |-> FALSE, response |-> <<>>]}
    \cup {[kind |-> "http", status |-> 200, json |-> TRUE, message |-> "success",
           has_response |-> TRUE, response |-> r] : r \in PassResponses}

\* process_query: questions, weather and astronomy records, pass lists,
\* outcomes of the chain call and of the direct call
Queries ==
    {[text |-> "What planets are visible tonight?", mentions_iss |-> FALSE],
     [text |-> "When is the next ISS pass?", mentions_iss |-> TRUE]}
Weathers ==
    {weather_fallback,
     [current |-> [temp |-> 12, clouds |-> 85,
                   weather |-> <<[main |-> "Clouds", description |-> "overcast clouds"]>>]]}
Astronomies ==
    {astronomy_fallback,
     get_astronomy_data(30267, [kind |-> "ok", sunrise |-> 381, sunset |-> 1214], 1, 15),
     get_astronomy_data(85000, [kind |-> "raise", sunrise |-> 0, sunset |-> 0], 7, 1)}
PassLists ==
    {get_iss_passes(lat, "Austin", api).passes :
        lat \in {30267, 85000},
        api \in {a \in PassApiAnswers : a.kind = "raise" \/ Len(a.response) \in {0, 3}}}
ChainOutcomes == {"answer", "raise"}
LlmOutcomes == {"content", "no_content", "raise"}

\* get_city_from_coords: the place found under the satellite, or its failure
Places == {<<"Unknown", "Unknown">>, <<"Lagos", "Nigeria">>, <<"Unknown", "Chile">>}

\* the Cosmic Oracle: longest history and number of Clear presses explored
MaxChat == 2
MaxClears == 1

\* the month of datetime.now(), the module constants, the outcome of the
\* processor's constructor, and the data main fetched for the location
OracleMonths == {1, 10}
ModuleStates == [LANGCHAIN_AVAILABLE : BOOLEAN, OPENAI_API_KEY : BOOLEAN]
ConstructorOutcomes == {"ok", "raise"}
OracleLlmOutcomes == {"content", "raise"}
OracleData ==
    [weather |-> weather_fallback,
     astronomy |-> astronomy_fallback,
     iss_passes |-> get_iss_passes(30267, "Austin, TX",
                       [kind |-> "http", status |-> 200, json |-> TRUE,
                        message |-> "success", has_response |-> TRUE,
                        response |-> <<GoodPass(1290, 300)>>]).passes]

\* what the user does in one run of the view: nothing, a click on the first
\* or second quick question, the submit button with an empty or a typed
\* question, or Clear
NoQuestion == Question("", "", FALSE, FALSE, FALSE)
OracleEvents ==
    {[kind |-> "none", button |-> 0, question |-> NoQuestion],
     [kind |-> "quick", button |-> 1, question |-> NoQuestion],
     [kind |-> "quick", button |-> 2, question |-> NoQuestion],
     [kind |-> "submit", button |-> 0, question |-> NoQuestion],
     [kind |-> "submit", button |-> 0,
      question |-> Question("", "Where is the ISS now?", TRUE, FALSE, FALSE)],
     [kind |-> "clear", button |-> 0, question |-> NoQuestion]}

(***************************************************************************)
(* State machine.  Every call starts from a clean slate: the operations    *)
(* keep no state between calls.                                            *)
(***************************************************************************)
ScanIdle ==
    /\ idx = 0
    /\ date = 0
    /\ max_altitude = 0
    /\ best_time = <<>>
    /\ is_visible_tonight = FALSE
    /\ iterations = 0
    /\ visible_constellations = <<>>
    /\ shown = None

ScanIdleNext ==
    /\ idx' = 0
    /\ date' = 0
    /\ max_altitude' = 0
    /\ best_time' = <<>>
    /\ is_visible_tonight' = FALSE
    /\ iterations' = 0
    /\ visible_constellations' = <<>>
    /\ shown' = None

NoLocals == [E |-> 0, decl |-> 0, acos_arg |-> 0, hour_angle |-> 0]

Init ==
    /\ op = "none"
    /\ arg = <<>>
    /\ pc = "idle"
    /\ loc = NoLocals
    /\ ret = None
    /\ ScanIdle
    /\ session = FreshSession

Callable == pc \in {"idle", "done"}

\* iss_tracker.calculate_iss_visibility(observer_lat, observer_lon, iss_lat, iss_lon)
CalculateIssVisibility ==
    /\ UNCHANGED session
    /\ Callable
    /\ \E o \in Observers, i \in IssPoints :
          /\ op' = "calculate_iss_visibility"
          /\ arg' = [observer_lat |-> o[1], observer_lon |-> o[2],
                     iss_lat |-> i[1], iss_lon |-> i[2]]
          /\ ret' = calculate_iss_visibility(o[1], o[2], i[1], i[2])
    /\ pc' = "done"
    /\ loc' = NoLocals
    /\ ScanIdleNext

\* iss_tracker.get_iss_current_position()
GetIssCurrentPosition ==
    /\ UNCHANGED session
    /\ Callable
    /\ \E feed \in Feeds, t \in ClockSeconds, h \in ClockHours :
          /\ op' = "get_iss_current_position"
          /\ arg' = [feed |-> feed, t |-> t, current_hour |-> h]
          /\ ret' = get_iss_current_position(feed, t, h)
    /\ pc' = "done"
    /\ loc' = NoLocals
    /\ ScanIdleNext

\* app.iss_visibility(lat, lon)
IssVisibility ==
    /\ UNCHANGED session
    /\ Callable
    /\ \E o \in Observers, feed \in Feeds :
          /\ op' = "iss_visibility"
          /\ arg' = [lat |-> o[1], lon |-> o[2], feed |-> feed]
          /\ ret' = iss_visibility(o[1], o[2], feed)
    /\ pc' = "done"
    /\ loc' = NoLocals
    /\ ScanIdleNext

\* astronomy.calculate_sunrise_sunset(lat, lon, date): entry
SunCall ==
    /\ UNCHANGED session
    /\ Callable
    /\ \E lat \in SunLatitudes, lon \in SunLongitudes, d \in SunDays :
          arg' = [lat |-> lat, lon |-> lon, day_of_year |-> d]
    /\ op' = "calculate_sunrise_sunset"
    /\ pc' = "hour_angle"
    /\ loc' = NoLocals
    /\ ret' = None
    /\ ScanIdleNext

\* calculate_sunrise_sunset, lines 382-398
SunHourAngle ==
    /\ UNCHANGED session
    /\ op = "calculate_sunrise_sunset"
    /\ pc = "hour_angle"
    /\ loc' = SunHourAngleStep(arg.lat, arg.day_of_year)
    /\ pc' = "times"
    /\ UNCHANGED <<op, arg, ret>>
    /\ UNCHANGED scanVars

\* calculate_sunrise_sunset, lines 401-425
SunTimes ==
    /\ UNCHANGED session
    /\ op = "calculate_sunrise_sunset"
    /\ pc = "times"
    /\ ret' = SunTimesStep(loc, arg.lon)
    /\ pc' = "done"
    /\ UNCHANGED <<op, arg, loc>>
    /\ UNCHANGED scanVars

\* the scan moves to the next catalog entry, or to the sort after the last one
NextStar ==
    /\ IF idx < CatalogSize
       THEN idx' = idx + 1 /\ pc' = "loop"
       ELSE idx' = idx /\ pc' = "sort"
    /\ date' = arg.sunset
    /\ max_altitude' = 0
    /\ best_time' = <<>>
    /\ is_visible_tonight' = FALSE
    /\ iterations' = 0

\* app.get_visible_constellations(lat, lon): lines 1363-1478, up to the first
\* test of the while loop; sunset, sunrise and now are the ephemeris' answers
ScanStart ==
    /\ UNCHANGED session
    /\ Callable
    /\ \E ss \in Sunsets, len \in WindowLengths, lead \in NowLeads, sky \in Skies,
          failing \in FailingSets, tz \in UtcOffsets :
          arg' = [sunset |-> ss, sunrise |-> ss + len, now |-> ss - lead,
                  sky |-> sky, failing |-> failing, utc_offset |-> tz]
          /\ date' = ss
    /\ op' = "get_visible_constellations"
    /\ pc' = "loop"
    /\ loc' = NoLocals
    /\ ret' = None
    /\ idx' = 1
    /\ max_altitude' = 0
    /\ best_time' = <<>>
    /\ is_visible_tonight' = FALSE
    /\ iterations' = 0
    /\ visible_constellations' = <<>>
    /\ shown' = None

\* lines 1480-1492: one execution of the loop body
Sample ==
    /\ UNCHANGED session
    /\ op = "get_visible_constellations"
    /\ pc = "loop"
    /\ date < arg.sunrise
    /\ idx \notin arg.failing
    /\ LET new == SampleUpdate(Altitude(arg.sky, idx, date), date,
                               [max_altitude |-> max_altitude, best_time |-> best_time,
                                is_visible_tonight |-> is_visible_tonight],
                               arg.utc_offset)
       IN  /\ max_altitude' = new.max_altitude
           /\ best_time' = new.best_time
           /\ is_visible_tonight' = new.is_visible_tonight
    /\ date' = date + EphemHour
    /\ iterations' = iterations + 1
    /\ UNCHANGED <<op, arg, pc, loc, ret, idx, visible_constellations, shown>>

\* lines 1481 and 1536-1537: star.compute raises, the star is skipped
SampleRaises ==
    /\ UNCHANGED session
    /\ op = "get_visible_constellations"
    /\ pc = "loop"
    /\ date < arg.sunrise
    /\ idx \in arg.failing
    /\ NextStar
    /\ UNCHANGED <<op, arg, loc, ret, visible_constellations, shown>>

\* lines 1480 and 1494-1534: the loop ends; a star visible tonight is recorded
StarEnd ==
    /\ UNCHANGED session
    /\ op = "get_visible_constellations"
    /\ pc = "loop"
    /\ ~(date < arg.sunrise)
    /\ visible_constellations' =
          IF is_visible_tonight
          THEN Append(visible_constellations,
                      ConstellationRecord(idx, arg.sky, arg.now, max_altitude, best_time))
          ELSE visible_constellations
    /\ NextStar
    /\ UNCHANGED <<op, arg, loc, ret, shown>>

\* lines 1539-1547: sort, drop the sorting values, return the first 10;
\* visible_constellations keeps the list as line 1540 leaves it
ScanFinish ==
    /\ UNCHANGED session
    /\ op = "get_visible_constellations"
    /\ pc = "sort"
    /\ visible_constellations' = SortByMaxAltitude(visible_constellations)
    /\ ret' = [k \in 1..Len(Top10(visible_constellations)) |->
                  PopSortingValues(Top10(visible_constellations)[k])]
    /\ pc' = "returned"
    /\ UNCHANGED <<op, arg, loc, idx, date, max_altitude, best_time,
                   is_visible_tonight, iterations, shown>>

\* main, lines 2934-2966: the cards of the result, or the notice for an empty one
Render ==
    /\ UNCHANGED session
    /\ op = "get_visible_constellations"
    /\ pc = "returned"
    /\ shown' = IF ret # <<>> THEN "cards"
                ELSE "No major constellations will be visible tonight from this location."
    /\ pc' = "done"
    /\ UNCHANGED <<op, arg, loc, ret, idx, date, max_altitude, best_time,
                   is_visible_tonight, iterations, visible_constellations>>

\* astronomy.calculate_moon_phase(date)
CalculateMoonPhase ==
    /\ UNCHANGED session
    /\ Callable
    /\ \E at \in MoonDates :
          /\ arg' = [date |-> at]
          /\ loc' = MoonLocals(at)
          /\ ret' = MoonResult(MoonLocals(at))
    /\ op' = "calculate_moon_phase"
    /\ pc' = "done"
    /\ ScanIdleNext

\* app.get_astronomy_data(lat, lon)
GetAstronomyData ==
    /\ UNCHANGED session
    /\ Callable
    /\ \E lat \in AstroLatitudes, api \in SunApiAnswers, month \in Months,
          day \in DaysOfMonth :
          /\ arg' = [lat |-> lat, api |-> api, month |-> month, day |-> day]
          /\ ret' = get_astronomy_data(lat, api, month, day)
    /\ op' = "get_astronomy_data"
    /\ pc' = "done"
    /\ loc' = NoLocals
    /\ ScanIdleNext

\* app.get_constellation_info(latitude, month)
GetConstellationInfo ==
    /\ UNCHANGED session
    /\ Callable
    /\ \E latitude \in InfoLatitudes, month \in Months :
          /\ arg' = [latitude |-> latitude, month |-> month]
          /\ ret' = get_constellation_info(latitude, month)
    /\ op' = "get_constellation_info"
    /\ pc' = "done"
    /\ loc' = NoLocals
    /\ ScanIdleNext

\* iss_tracker._calculate_distance(lat1, lon1, lat2, lon2)
CalculateDistance ==
    /\ UNCHANGED session
    /\ Callable
    /\ \E a \in GeoPoints, b \in GeoPoints :
          /\ arg' = [lat1 |-> a[1], lon1 |-> a[2], lat2 |-> b[1], lon2 |-> b[2]]
          /\ ret' = _calculate_distance(a[1], a[2], b[1], b[2])
    /\ op' = "_calculate_distance"
    /\ pc' = "done"
    /\ loc' = NoLocals
    /\ ScanIdleNext

\* app.haversine_distance(lat1, lon1, lat2, lon2)
HaversineDistance ==
    /\ UNCHANGED session
    /\ Callable
    /\ \E a \in GeoPoints, b \in GeoPoints :
          /\ arg' = [lat1 |-> a[1], lon1 |-> a[2], lat2 |-> b[1], lon2 |-> b[2]]
          /\ ret' = haversine_distance(a[1], a[2], b[1], b[2])
    /\ op' = "haversine_distance"
    /\ pc' = "done"
    /\ loc' = NoLocals
    /\ ScanIdleNext

\* iss_tracker._calculate_elevation_angle(distance_km)
CalculateElevationAngle ==
    /\ UNCHANGED session
    /\ Callable
    /\ \E distance_km \in ElevationDistances :
          /\ arg' = [distance_km |-> distance_km]
          /\ ret' = _calculate_elevation_angle(distance_km)
    /\ op' = "_calculate_elevation_angle"
    /\ pc' = "done"
    /\ loc' = NoLocals
    /\ ScanIdleNext

\* get_visible_constellations, lines 1501-1517: the compass direction of the
\* current azimuth
DetermineDirection ==
    /\ UNCHANGED session
    /\ Callable
    /\ \E current_az \in CompassAzimuths :
          /\ arg' = [current_az |-> current_az]
          /\ ret' = Direction(current_az)
    /\ op' = "direction"
    /\ pc' = "done"
    /\ loc' = NoLocals
    /\ ScanIdleNext

\* main, lines 2327-2457: a run of the script up to the end of the sidebar's
\* location input; st.rerun() ends the run
MainSidebar ==
    /\ Callable
    /\ \E city \in CityInputs, net \in GeocoderAnswers, pressed \in BOOLEAN :
          LET r == sidebar_location(session, city, net, pressed)
          IN  /\ arg' = [city |-> city, net |-> net, pressed |-> pressed, answer |-> net]
              /\ session' = r.session
              /\ pc' = IF r.rerun THEN "done" ELSE "location"
              /\ ret' = IF r.rerun THEN [kind |-> "rerun"] ELSE [kind |-> "running"]
    /\ op' = "main"
    /\ loc' = NoLocals
    /\ ScanIdleNext

\* main, lines 2499-2517: the location handed to the weather, astronomy and
\* ISS fetchers; answer is what the geocoding service says now
MainLocation ==
    /\ op = "main"
    /\ pc = "location"
    /\ \E answer \in GeocoderAnswers :
          /\ arg' = [arg EXCEPT !.answer = answer]
          /\ LET r == resolve_location(session, answer)
             IN  ret' = [kind |-> "fetched", lat |-> r.lat, lon |-> r.lon,
                         display_name |-> r.display_name]
    /\ pc' = "done"
    /\ UNCHANGED <<op, loc, session>>
    /\ UNCHANGED scanVars

\* app.get_iss_passes(lat, lon, city_name)
GetIssPasses ==
    /\ UNCHANGED session
    /\ Callable
    /\ \E lat \in PassLatitudes, city_name \in PassCities, api \in PassApiAnswers :
          /\ arg' = [lat |-> lat, city_name |-> city_name, api |-> api]
          /\ ret' = get_iss_passes(lat, city_name, api).passes
          /\ loc' = [http_requests |-> get_iss_passes(lat, city_name, api).http_requests]
    /\ op' = "get_iss_passes"
    /\ pc' = "done"
    /\ ScanIdleNext

ProcessQuery ==
    /\ UNCHANGED session
    /\ Callable
    /\ \E query \in Queries, weather \in Weathers, astronomy \in Astronomies,
          iss_passes \in PassLists, chain \in ChainOutcomes, llm \in LlmOutcomes :
          LET r == process_query(query, weather, astronomy, iss_passes, chain, llm)
          IN  /\ arg' = [query |-> query, weather |-> weather, astronomy |-> astronomy,
                         iss_passes |-> iss_passes, chain |-> chain, llm |-> llm]
              /\ ret' = r.value
              /\ loc' = [calls |-> r.calls]
    /\ op' = "process_query"
    /\ pc' = "done"
    /\ ScanIdleNext

IssTrackingView ==
    /\ UNCHANGED session
    /\ Callable
    /\ \E o \in Observers, feed \in Feeds, place \in Places :
          /\ arg' = [lat |-> o[1], lon |-> o[2], feed |-> feed, place |-> place]
          /\ loc' = [iss_vis |-> iss_visibility(o[1], o[2], feed)]
          /\ ret' = iss_tracking_view(iss_visibility(o[1], o[2], feed), place)
    /\ op' = "iss_tracking_view"
    /\ pc' = "done"
    /\ ScanIdleNext

\* main with the Cosmic Oracle selected: the processor initialisation, then
\* the view with what the user did
MainOracle ==
    /\ Callable
    /\ \E event \in OracleEvents, month \in OracleMonths, module \in ModuleStates,
          constructor \in ConstructorOutcomes, chain \in ChainOutcomes,
          llm \in OracleLlmOutcomes :
          /\ (event.kind = "quick" \/ event.question.text # "") =>
                Len(session.chat_history) < MaxChat
          /\ event.kind = "clear" => session.input_counter < MaxClears
          /\ "ai_enabled" \in session.keys => module = session.module
          /\ LET started == init_ai([session EXCEPT !.module = module], constructor)
                 r == oracle_view(started, event, month, OracleData, chain, llm)
             IN  /\ arg' = [event |-> event]
                 /\ session' = r.session
                 /\ ret' = r.result
                 /\ pc' = IF r.result.kind = "rerun" THEN "rerun" ELSE "done"
    /\ op' = "oracle"
    /\ loc' = NoLocals
    /\ ScanIdleNext

\* st.rerun(): main runs again from the top with no button pressed
MainOracleRerun ==
    /\ op = "oracle"
    /\ pc = "rerun"
    /\ \E month \in OracleMonths, constructor \in ConstructorOutcomes :
          LET started == init_ai(session, constructor)
              r == oracle_view(started, [kind |-> "none", button |-> 0,
                                         question |-> NoQuestion],
                               month, OracleData, "answer", "content")
          IN  /\ session' = r.session
              /\ ret' = r.result
    /\ pc' = "done"
    /\ UNCHANGED <<op, arg, loc>>
    /\ UNCHANGED scanVars

NextIss == CalculateIssVisibility \/ GetIssCurrentPosition \/ IssVisibility

NextSun == SunCall \/ SunHourAngle \/ SunTimes

SpecIss == Init /\ [][NextIss]_vars

SpecSun == Init /\ [][NextSun]_vars

NextMoon == CalculateMoonPhase

SpecMoon == Init /\ [][NextMoon]_vars

NextPlanets == GetAstronomyData

SpecPlanets == Init /\ [][NextPlanets]_vars

NextInfo == GetConstellationInfo

SpecInfo == Init /\ [][NextInfo]_vars

NextGeo == CalculateDistance \/ HaversineDistance \/ CalculateElevationAngle

SpecGeo == Init /\ [][NextGeo]_vars

NextCompass == DetermineDirection

SpecCompass == Init /\ [][NextCompass]_vars

NextLocation == MainSidebar \/ MainLocation

SpecLocation == Init /\ [][NextLocation]_vars

NextPasses == GetIssPasses

SpecPasses == Init /\ [][NextPasses]_vars

NextQuery == ProcessQuery
SpecQuery == Init /\ [][NextQuery]_vars

NextIssView == IssTrackingView
SpecIssView == Init /\ [][NextIssView]_vars

NextOracle == MainOracle \/ MainOracleRerun
SpecOracle == Init /\ [][NextOracle]_vars

NextScan == ScanStart \/ Sample \/ SampleRaises \/ StarEnd \/ ScanFinish \/ Render

SpecScan == Init /\ [][NextScan]_vars

Next == NextIss \/ NextSun \/ NextScan \/ NextMoon \/ NextPlanets \/ NextInfo \/ NextGeo \/ NextCompass \/ NextLocation \/ NextPasses \/ NextQuery \/ NextIssView \/ NextOracle

Spec == Init /\ [][Next]_vars

(***************************************************************************)
(* Properties.                                                             *)
(***************************************************************************)
VisibleOnlyKeys ==
    {"elevation_degrees", "azimuth_degrees", "brightness_magnitude", "visibility_quality"}

\* C1: calculate_iss_visibility reports visible = True exactly when the
\* great-circle distance between observer and sub-point is at most 2200 km,
\* and the elevation, azimuth, magnitude and quality fields are present
\* exactly when visible is True.
C1_VisibleIffWithin2200 ==
    op = "calculate_iss_visibility" =>
        /\ ret.distance_km = _calculate_distance(arg.observer_lat, arg.observer_lon,
                                                 arg.iss_lat, arg.iss_lon)
        /\ ret.visible = (ret.distance_km <= 2200)
        /\ ret.visible => VisibleOnlyKeys \subseteq DOMAIN ret
        /\ ~ret.visible => VisibleOnlyKeys \cap DOMAIN ret = {}

\* C1 witness: a sub-point exactly 2200 km away is reported visible, with its fields.
C1_Witness ==
    /\ op = "calculate_iss_visibility"
    /\ ret.distance_km = 2200
    /\ ret.visible
    /\ VisibleOnlyKeys \subseteq DOMAIN ret

CoordinateKeys == {"latitude", "longitude", "iss_lat", "iss_lon"}

\* C2: when the position feed is unavailable (the request raises, or the
\* status is not 200), get_iss_current_position and iss_visibility return a
\* result that holds no latitude or longitude.
C2_UnavailableFeedGivesNoCoordinates ==
    (op \in {"get_iss_current_position", "iss_visibility"} /\ FeedUnavailable(arg.feed))
        => CoordinateKeys \cap DOMAIN ret = {}

\* C4: for every valid position and date calculate_sunrise_sunset returns its
\* times without raising: the sunrise and sunset clock hours lie in 0..23.
C4_SunriseSunsetNeverRaises ==
    (op = "calculate_sunrise_sunset" /\ pc = "done") =>
        /\ "raised" \notin DOMAIN ret
        /\ ClockHour(sunrise_hour(loc, arg.lon)) \in 0..23
        /\ ClockHour(sunset_hour(loc, arg.lon)) \in 0..23

AcosArgOutside == loc.acos_arg < -TrigScale \/ loc.acos_arg > TrigScale

\* C5: when the arccos argument is outside [-1, 1] the hour angle is exactly
\* 90 degrees and the hour-angle step completes; inside [-1, 1] the hour angle
\* is the arccos of the argument, within [0, 180] degrees; a reported day
\* length lies between 0 and 24 hours, and an exception of the call comes
\* from the clock hours only.
C5_HourAngleFallback ==
    (op = "calculate_sunrise_sunset" /\ pc \in {"times", "done"}) =>
        /\ AcosArgOutside => loc.hour_angle = 90000
        /\ ~AcosArgOutside =>
              /\ loc.hour_angle \in 0..180000
              /\ Abs(Cos(loc.hour_angle) - loc.acos_arg) <= 2
        /\ (pc = "done" /\ "day_length" \in DOMAIN ret) => ret.day_length \in 0..240
        /\ (pc = "done" /\ "raised" \in DOMAIN ret) =>
              \/ ClockHour(sunrise_hour(loc, arg.lon)) \notin 0..23
              \/ ClockHour(sunset_hour(loc, arg.lon)) \notin 0..23

\* C5 witness: a polar case, the argument outside [-1, 1], answered with a
\* 12.0 hour day.
C5_Witness ==
    /\ op = "calculate_sunrise_sunset"
    /\ pc = "done"
    /\ AcosArgOutside
    /\ loc.hour_angle = 90000
    /\ "day_length" \in DOMAIN ret
    /\ ret.day_length = 120

(***************************************************************************)
(* The constellation scan, stated from its inputs.                         *)
(***************************************************************************)
ScanOver == op = "get_visible_constellations" /\ pc \in {"returned", "done"}

\* the hourly sample times of the window [sunset, sunrise)
SampleTimes == {t \in arg.sunset..(arg.sunrise - 1) : (t - arg.sunset) % 60 = 0}

\* the samples the ephemeris gave for star i
SamplesOf(i) == IF i \in arg.failing THEN {} ELSE SampleTimes

SetMax(S) == CHOOSE m \in S : \A x \in S : x <= m
SetMin(S) == CHOOSE m \in S : \A x \in S : m <= x

MaxSampled(i) == SetMax({Altitude(arg.sky, i, t) : t \in SamplesOf(i)})

Qualifies(i) == SamplesOf(i) # {} /\ MaxSampled(i) > 10

Qualifying == {i \in 1..CatalogSize : Qualifies(i)}

EarliestBest(i) ==
    SetMin({t \in SamplesOf(i) : Altitude(arg.sky, i, t) = MaxSampled(i)})

IndexOf(name) == CHOOSE i \in 1..CatalogSize : constellation_data[i].name = name

Listed == {IndexOf(visible_constellations[k].constellation) :
             k \in 1..Len(visible_constellations)}

Returned == {IndexOf(ret[k].constellation) : k \in 1..Len(ret)}

\* C3: for every night window (sunrise after sunset) the scan returns at
\* least 1 and at most 10 entries.
C3_ResultHasOneToTenEntries ==
    (ScanOver /\ arg.sunset < arg.sunrise) => Len(ret) \in 1..10

\* C6: a window with sunrise <= sunset is rejected: the scan does not return
\* an ordinary empty result for it.
C6_InvalidWindowRejected ==
    ~(ScanOver /\ arg.sunrise <= arg.sunset /\ ret = <<>>)

\* C7: the sampling loop of a star executes at most 24 iterations (24 hours
\* divided by the 1-hour step), for every night window.
C7_AtMost24Iterations ==
    op = "get_visible_constellations" => iterations <= 1440 \div EphemHour

\* C8: every record of the scan has max_altitude >= current_altitude.
C8_MaxAtLeastCurrent ==
    op = "get_visible_constellations" =>
        \A k \in 1..Len(visible_constellations) :
            visible_constellations[k].max_altitude
                >= visible_constellations[k].current_altitude

\* C9 as stated: a star is in the scan result exactly when its maximum
\* altitude over the hourly samples exceeds 10 degrees.
C9_InResultIffAbove10 ==
    ScanOver => \A i \in 1..CatalogSize : (i \in Returned) <=> Qualifies(i)

\* C9 amended: a star is in the list of qualifying stars (the list that is
\* then sorted and cut to 10) exactly when its maximum altitude over the
\* hourly samples exceeds 10 degrees; every star of the result qualifies; the
\* record of a qualifying star holds that maximum, and its best time is the
\* local clock time of the earliest sample that reached it.
C9_QualifiesIffAbove10 ==
    ScanOver =>
        /\ \A i \in 1..CatalogSize : (i \in Listed) <=> Qualifies(i)
        /\ Returned \subseteq Qualifying
        /\ \A k \in 1..Len(visible_constellations) :
              LET r == visible_constellations[k]
                  i == IndexOf(r.constellation)
              IN  /\ r.max_altitude = MaxSampled(i)
                  /\ r.best_time = StrfHM(localtime(EarliestBest(i), arg.utc_offset))
        /\ \A k \in 1..Len(ret) :
              ret[k].best_time =
                  StrfHM(localtime(EarliestBest(IndexOf(ret[k].constellation)),
                                   arg.utc_offset))

\* C9 witness: more than 10 stars qualify, one star reaches its maximum at two
\* sample times, and one star stays at exactly 10 degrees or below.
C9_Witness ==
    /\ ScanOver
    /\ Cardinality(Qualifying) > 10
    /\ \E i \in Qualifying :
          Cardinality({t \in SamplesOf(i) : Altitude(arg.sky, i, t) = MaxSampled(i)}) > 1
    /\ \E i \in 1..CatalogSize : SamplesOf(i) # {} /\ MaxSampled(i) = 10

\* C10: the result is ordered by non-increasing maximum altitude, entries
\* with equal maximum keep catalog order, and the result holds the (at most)
\* 10 qualifying stars that come first in that order.
C10_SortedStableTop10 ==
    ScanOver =>
        LET R == [k \in 1..Len(ret) |-> IndexOf(ret[k].constellation)]
            Before(i, j) == \/ MaxSampled(i) > MaxSampled(j)
                            \/ MaxSampled(i) = MaxSampled(j) /\ i < j
        IN  /\ Len(ret) = IF Cardinality(Qualifying) < 10
                          THEN Cardinality(Qualifying) ELSE 10
            /\ \A k \in 1..Len(ret) : R[k] \in Qualifying
            /\ \A k, l \in 1..Len(ret) : k < l => Before(R[k], R[l])
            /\ \A i \in Qualifying \ Returned : \A k \in 1..Len(ret) : Before(R[k], i)

\* C10 witness: more than 10 stars qualify and two neighbours of the result
\* have the same maximum altitude.
C10_Witness ==
    /\ ScanOver
    /\ Cardinality(Qualifying) > 10
    /\ \E k \in 1..(Len(ret) - 1) :
          MaxSampled(IndexOf(ret[k].constellation))
              = MaxSampled(IndexOf(ret[k + 1].constellation))

(***************************************************************************)
(* Moon phase.                                                             *)
(***************************************************************************)
MoonCalled == op = "calculate_moon_phase"

\* the 8 canonical names in bin order and the bin boundaries in hundredths
\* of a day
CanonicalPhases ==
    <<"New Moon", "Waxing Crescent", "First Quarter", "Waxing Gibbous",
      "Full Moon", "Waning Gibbous", "Last Quarter", "Waning Crescent">>

PhaseBoundaries == <<185, 554, 923, 1291, 1660, 2029, 2398, 2766>>

\* the name of the half-open bin of an age (millionths of a day): the number
\* of boundaries at or below the age selects the bin, the ninth being New Moon
BinName(age) ==
    LET passed == Cardinality({k \in 1..8 : PhaseBoundaries[k] * 10000 <= age})
    IN  CanonicalPhases[(passed % 8) + 1]

\* C11: every phase age in [0, synodic month) gets the name of its half-open
\* bin, a boundary age belonging to the later bin and ages from 27.66 days on
\* to New Moon; age 0 is New Moon and age 14.8 is Full Moon.
C11_PhaseNameByHalfOpenBins ==
    MoonCalled =>
        /\ ret.phase_name = BinName(loc.phase_days)
        /\ loc.phase_days = 0 => ret.phase_name = "New Moon"
        /\ loc.phase_days = 14800000 => ret.phase_name = "Full Moon"
        /\ loc.phase_days >= 27660000 => ret.phase_name = "New Moon"

\* an age exactly on the first boundary has been classified
C11_Witness ==
    /\ MoonCalled
    /\ loc.phase_days = 1850000
    /\ ret.phase_name = "Waxing Crescent"

\* C12: one synodic month later the phase age, the phase name and the
\* illumination are the same, also for dates before the reference new moon.
C12_PeriodicInSynodicMonth ==
    MoonCalled =>
        LET later == calculate_moon_phase(arg.date + synodic_month)
        IN  /\ later.age = ret.age
            /\ later.phase_name = ret.phase_name
            /\ later.illumination = ret.illumination

\* a date before the reference new moon whose month-later date is after it
C12_Witness ==
    /\ MoonCalled
    /\ arg.date < known_new_moon
    /\ arg.date + synodic_month > known_new_moon
    /\ ret.phase_name = "Full Moon"

\* C13: for every date, also before the reference new moon, the age is in
\* [0, synodic month) and the illumination in [0, 100] percent, 0 at age 0
\* and maximal at half the synodic month.
C13_AgeAndIlluminationInRange ==
    MoonCalled =>
        /\ loc.phase_days >= 0 /\ loc.phase_days < synodic_month
        /\ ret.age >= 0 /\ ret.age * 100000 < synodic_month
        /\ ret.illumination >= 0 /\ ret.illumination <= 1000
        /\ loc.phase_days = 0 => ret.illumination = 0
        /\ ret.illumination
              <= calculate_moon_phase(known_new_moon + synodic_month \div 2).illumination

\* half a synodic month into a cycle that began before the reference new moon
C13_Witness ==
    /\ MoonCalled
    /\ arg.date < known_new_moon
    /\ loc.phase_days = synodic_month \div 2
    /\ ret.illumination = 1000

\* C14: next_new_moon and next_full_moon are both later than the query date;
\* next_new_moon is the reference epoch plus a whole number of synodic months
\* and next_full_moon is such a date plus the fixed half-cycle offset.
C14_NextMoonsAreLater ==
    MoonCalled =>
        /\ ret.next_new_moon > arg.date
        /\ ret.next_full_moon > arg.date
        /\ (ret.next_new_moon - known_new_moon) % synodic_month = 0
        /\ (ret.next_full_moon - full_moon_offset - known_new_moon) % synodic_month = 0

(***************************************************************************)
(* Planet list and constellation guide.                                    *)
(***************************************************************************)
\* C15: for every month and every outcome of the sunrise/sunset request the
\* planet list of get_astronomy_data is the first two entries of the month's
\* list when abs(latitude) > 60, and the month's full list when
\* abs(latitude) <= 60.
C15_PlanetListTruncatedBeyond60 ==
    op = "get_astronomy_data" =>
        LET full == season_planets(arg.month)
        IN  IF Abs(arg.lat) > 60000
            THEN ret.planets.visible = SubSeq(full, 1, 2)
            ELSE ret.planets.visible = full

\* no database entry matches the latitude and the month
NoCatalogMatch(latitude, month) ==
    \A k \in 1..Len(constellation_database) :
        ~(/\ month \in constellation_database[k].seasons
          /\ constellation_database[k].latitude_range[1] <= latitude
          /\ latitude <= constellation_database[k].latitude_range[2])

\* the season's default constellation
SeasonalDefault(month) ==
    IF month \in {12, 1, 2} THEN "Orion"
    ELSE IF month \in {3, 4, 5} THEN "Leo"
    ELSE IF month \in {6, 7, 8} THEN "Cygnus (Northern Cross)"
    ELSE "Andromeda"

\* C16: when no catalog constellation matches, get_constellation_info returns
\* exactly one entry, the seasonal default of the month, whose name and
\* descriptive fields belong to the same constellation; the result always has
\* between 1 and 5 entries.
C16_SeasonalDefaultIsConsistent ==
    op = "get_constellation_info" =>
        /\ Len(ret) >= 1 /\ Len(ret) <= 5
        /\ NoCatalogMatch(arg.latitude, arg.month) =>
              /\ Len(ret) = 1
              /\ ret[1].name = SeasonalDefault(arg.month)
              /\ ret[1].fun_fact = <<"fun_fact", ret[1].name>>
              /\ ret[1].how_to_spot = <<"how_to_spot", ret[1].name>>
              /\ ret[1].key_stars = <<"key_stars", ret[1].name>>

(***************************************************************************)
(* Elevation, compass direction, great-circle distance.                    *)
(***************************************************************************)
\* C18: _calculate_elevation_angle returns exactly 90 degrees at distance 0
\* and, for every distance >= 0, a value within [0, 90] that does not
\* increase as the distance increases.
C18_ElevationClampedAndMonotone ==
    op = "_calculate_elevation_angle" =>
        /\ arg.distance_km = 0 => ret = 90000
        /\ ret >= 0 /\ ret <= 90000
        /\ \A farther \in ElevationDistances :
              farther >= arg.distance_km => _calculate_elevation_angle(farther) <= ret

\* the overhead case has been computed
C18_Witness ==
    /\ op = "_calculate_elevation_angle"
    /\ arg.distance_km = 0
    /\ ret = 90000

\* the eight directions clockwise from north
CompassPoints == <<"N", "NE", "E", "SE", "S", "SW", "W", "NW">>

\* the sector of an azimuth (tenths of a degree): 45 degrees wide, centred on
\* its direction, its lower edge included
SectorOf(az) == CompassPoints[(((az + 225) % 3600) \div 450) + 1]

\* C19: every azimuth in [0, 360) gets exactly the direction of its 45-degree
\* sector centred on N, NE, E, SE, S, SW, W or NW, a boundary azimuth
\* belonging to the sector that starts there (22.5 is NE, 337.5 is N).
C19_CompassIsEightWayPartition ==
    op = "direction" =>
        /\ ret = SectorOf(arg.current_az)
        /\ arg.current_az = 225 => ret = "NE"
        /\ arg.current_az = 3375 => ret = "N"

\* the azimuth on the boundary where the north sector starts
C19_Witness ==
    /\ op = "direction"
    /\ arg.current_az = 3375
    /\ ret = "N"

\* C20: both great-circle distances are symmetric: distance(a, b) equals
\* distance(b, a).
C20_DistanceSymmetric ==
    /\ op = "_calculate_distance" =>
          ret = _calculate_distance(arg.lat2, arg.lon2, arg.lat1, arg.lon1)
    /\ op = "haversine_distance" =>
          ret = haversine_distance(arg.lat2, arg.lon2, arg.lat1, arg.lon1)

\* two points of different latitude and longitude, a positive distance
C20_Witness ==
    /\ op = "_calculate_distance"
    /\ arg.lat1 # arg.lat2 /\ arg.lon1 # arg.lon2
    /\ ret > 0
    /\ ret = _calculate_distance(arg.lat2, arg.lon2, arg.lat1, arg.lon1)

(***************************************************************************)
(* Location handed to the fetchers.                                        *)
(***************************************************************************)
\* a run of main has resolved its location and fetched
LocationHanded == op = "main" /\ pc = "done" /\ ret.kind = "fetched"

\* the run asked the geocoder for current_city and the geocoder succeeded
GeocodingSucceeded ==
    /\ ("location_valid" \in session.keys) => session.location_valid
    /\ geocode_location(session.current_city, arg.answer).status = "success"

\* C17: the coordinates handed to the fetchers are never None: they are the
\* geocoder's result for current_city when the run's geocoding succeeds,
\* otherwise the coordinates stored in the session by the last validated
\* submission, otherwise Austin (30.2672, -97.7431) named 'Austin, TX, USA'.
C17_LocationNeverNone ==
    LocationHanded =>
        /\ ret.lat # <<>> /\ ret.lon # <<>>
        /\ IF GeocodingSucceeded
           THEN ret.lat = arg.answer.lat /\ ret.lon = arg.answer.lon
           ELSE IF "lat" \in session.keys /\ "lon" \in session.keys
           THEN ret.lat = session.lat /\ ret.lon = session.lon
           ELSE /\ ret.lat = <<302672>> /\ ret.lon = <<-977431>>
                /\ ret.display_name = "Austin, TX, USA"

\* the geocoder fails for current_city after an earlier submission was
\* validated: the stored coordinates are handed on
C17_Witness ==
    /\ LocationHanded
    /\ geocode_location(session.current_city, arg.answer).status = "timeout"
    /\ "lat" \in session.keys
    /\ session.current_city.text = "London, UK"
    /\ ret.lat = session.lat

(***************************************************************************)
(* Satellite estimators.                                                   *)
(***************************************************************************)
IssVisibilityCalled == op = "calculate_iss_visibility"

\* C21: the great-circle distance from a point to itself is exactly 0, and an
\* observer at the satellite sub-point gets distance 0, elevation 90 degrees
\* and visible = True.
C21_ZeroDistanceToItself ==
    IssVisibilityCalled =>
        /\ _calculate_distance(arg.observer_lat, arg.observer_lon,
                               arg.observer_lat, arg.observer_lon) = 0
        /\ _calculate_distance(arg.iss_lat, arg.iss_lon, arg.iss_lat, arg.iss_lon) = 0
        /\ (arg.observer_lat = arg.iss_lat /\ arg.observer_lon = arg.iss_lon) =>
              /\ ret.visible
              /\ ret.distance_km = 0
              /\ ret.elevation_degrees = 90000

\* an observer away from the equator standing at the sub-point
C21_Witness ==
    /\ IssVisibilityCalled
    /\ arg.observer_lat = arg.iss_lat /\ arg.observer_lon = arg.iss_lon
    /\ arg.observer_lat # 0
    /\ ret.visible /\ ret.distance_km = 0

\* C25: app.iss_visibility reports visible = True exactly when
\* iss_tracker.calculate_iss_visibility does for the same observer and
\* satellite sub-point.
C25_EstimatorsAgree ==
    (op = "iss_visibility" /\ "iss_lat" \in DOMAIN ret) =>
        ret.visible
            = calculate_iss_visibility(arg.lat, arg.lon, ret.iss_lat, ret.iss_lon).visible

\* C26: a result of calculate_iss_visibility with visible = True is never
\* rated 'Poor - Very low on horizon': within 2200 km the elevation
\* atan(408 / distance) is above 10 degrees.
C26_VisibleIsNeverPoor ==
    (IssVisibilityCalled /\ ret.visible) =>
        /\ ret.elevation_degrees > 10000
        /\ ret.visibility_quality # "Poor - Very low on horizon"

\* a visible satellite at the edge of the range, rated in the lowest band
\* that can occur
C26_Witness ==
    /\ IssVisibilityCalled
    /\ ret.visible
    /\ ret.distance_km = max_visibility_range
    /\ ret.visibility_quality = "Fair - Low but visible"

(***************************************************************************)
(* Pass predictions.                                                       *)
(***************************************************************************)
\* the service answered with a usable, non-empty pass list for a latitude
\* within 80 degrees
PassesListed ==
    /\ Abs(arg.lat) <= 80000
    /\ arg.api.kind = "http" /\ arg.api.status = 200 /\ arg.api.json
    /\ arg.api.message = "success" /\ arg.api.has_response
    /\ arg.api.response # <<>>
    /\ \A k \in 1..Len(arg.api.response) : k <= 3 => arg.api.response[k].complete

\* C22: get_iss_passes returns a non-empty list of at most 3 entries; on
\* every non-success path it returns a single placeholder with duration 0
\* and no pass time; beyond 80 degrees of latitude no HTTP request is issued.
C22_PassesNonEmptyAtMostThree ==
    op = "get_iss_passes" =>
        /\ Len(ret) >= 1 /\ Len(ret) <= 3
        /\ ~PassesListed =>
              /\ Len(ret) = 1
              /\ ret[1].duration = 0
              /\ ret[1].risetime.clock = <<>>
        /\ Abs(arg.lat) > 80000 => loc.http_requests = 0

\* five passes were answered and three are returned
C22_Witness ==
    /\ op = "get_iss_passes"
    /\ PassesListed
    /\ Len(arg.api.response) = 5
    /\ Len(ret) = 3
    /\ ret[3].risetime.clock = StrfHM(arg.api.response[3].risetime)

(***************************************************************************)
(* The query processor.                                                    *)
(***************************************************************************)
QueryProcessed == op = "process_query" /\ pc = "done"

\* C23: process_query never lets an exception out and always hands back a
\* string; the direct call to the language model is attempted only after
\* the chain call has been made and has failed, and the fixed apology is
\* handed back only after the chain call and the direct call both failed.
C23_QueryAlwaysAnswered ==
    QueryProcessed =>
        /\ ret.kind = "str"
        /\ (\E k \in 1..Len(loc.calls) : loc.calls[k] = "llm") =>
              (loc.calls = <<"chain", "llm">> /\ arg.chain = "raise")
        /\ ret = apology => (arg.chain = "raise" /\ arg.llm = "raise"
                             /\ loc.calls = <<"chain", "llm">>)

\* the chain call and the direct call both failed on a question about the
\* station, and the apology came back
C23_Witness ==
    /\ QueryProcessed
    /\ arg.query.mentions_iss
    /\ arg.chain = "raise" /\ arg.llm = "raise"
    /\ loc.calls = <<"chain", "llm">>
    /\ ret = apology

(***************************************************************************)
(* The ISS Tracking view.                                                  *)
(***************************************************************************)
IssViewShown == op = "iss_tracking_view" /\ pc = "done"

\* C24: whatever iss_visibility returned (visible, not visible, feed
\* failure), the ISS Tracking view renders to completion without raising.
C24_IssViewRenders == IssViewShown => ret.kind = "rendered"

(***************************************************************************)
(* Location submissions in the sidebar.                                    *)
(***************************************************************************)
\* a run of the script in which the city typed is submitted: it is not empty
\* and differs from current_city
Submission ==
    /\ Callable
    /\ op' = "main"
    /\ arg'.city.text # ""
    /\ arg'.city.text # session.current_city.text

SubmissionInvalid ==
    \/ arg'.city.length < 2
    \/ arg'.city.specials \cap sidebar_invalid_chars # {}

SubmissionFound ==
    /\ ~SubmissionInvalid
    /\ geocode_location(arg'.city, arg'.net).status \in {"success", "uncertain"}

LocationKept ==
    /\ session'.current_city = session.current_city
    /\ session'.validated_location = session.validated_location
    /\ session'.lat = session.lat
    /\ session'.lon = session.lon

LocationStored ==
    /\ session'.current_city = arg'.city
    /\ session'.validated_location = geocode_location(arg'.city, arg'.net).display_name
    /\ session'.lat = geocode_location(arg'.city, arg'.net).lat
    /\ session'.lon = geocode_location(arg'.city, arg'.net).lon
    /\ session'.location_valid = TRUE

\* C27 as stated: a failing submission (validation error or failed lookup)
\* keeps current_city, validated_location, lat and lon and sets
\* location_valid to False; a successful one stores the four together and
\* sets location_valid to True.
C27_FailedSubmissionSetsInvalid ==
    [][Submission =>
          IF SubmissionFound THEN LocationStored
          ELSE LocationKept /\ session'.location_valid = FALSE]_vars

\* C27: a submission failing validation leaves current_city,
\* validated_location, lat, lon and location_valid as they were; a submission
\* whose lookup fails keeps the four and sets location_valid to False; a
\* successful submission stores the four together and sets location_valid to
\* True.
C27_SubmissionFrame ==
    [][Submission =>
          IF SubmissionFound THEN LocationStored
          ELSE IF SubmissionInvalid
               THEN LocationKept /\ session'.location_valid = session.location_valid
               ELSE LocationKept /\ session'.location_valid = FALSE]_vars

\* a lookup failed after an earlier success: the stored location is still
\* there and the session is marked invalid
C27_Witness ==
    /\ op = "main"
    /\ arg.city.text # session.current_city.text
    /\ arg.city.length >= 2
    /\ arg.city.specials = {}
    /\ session.lat # <<>>
    /\ session.validated_location # ""
    /\ session.location_valid = FALSE

\* C28: whenever the city box holds current_city after a run of the script,
\* location_valid is not False.
C28_ActiveCityIsValid ==
    (op = "main" /\ arg.city.text = session.current_city.text) =>
        session.location_valid

(***************************************************************************)
(* The Cosmic Oracle.                                                      *)
(***************************************************************************)
\* a run of the view started by the user, and what the user did in it
OracleRun == Callable /\ op' = "oracle"
OracleAsked == arg'.event.kind = "quick" \/ arg'.event.question.text # ""
OracleCleared == arg'.event.kind = "clear"

LastChat(s) == s.chat_history[Len(s.chat_history)]

\* C29: each quick-question click or non-empty custom submission appends
\* exactly one entry at the end of the chat history, with ai_powered equal to
\* ai_enabled at that moment; an empty submission appends nothing; Clear
\* empties the history and increases input_counter by 1; the rerun that
\* follows changes neither; the latest response shown is the last entry.
C29_OneEntryPerAnsweredQuestion ==
    [][/\ (OracleRun /\ OracleAsked) =>
             /\ session'.chat_history =
                   session.chat_history \o <<LastChat(session')>>
             /\ LastChat(session').ai_powered = session'.ai_enabled
             /\ arg'.event.kind = "submit" =>
                   LastChat(session').question = arg'.event.question
             /\ session'.input_counter = session.input_counter
       /\ (OracleRun /\ ~OracleAsked /\ ~OracleCleared) =>
             /\ session'.chat_history = session.chat_history
             /\ session'.input_counter = session.input_counter
       /\ (OracleRun /\ OracleCleared) =>
             /\ session'.chat_history = <<>>
             /\ session'.input_counter = session.input_counter + 1
       /\ (op = "oracle" /\ pc = "rerun") =>
             /\ session'.chat_history = session.chat_history
             /\ session'.input_counter = session.input_counter
       /\ (op' = "oracle" /\ pc' = "done") =>
             /\ ret'.kind = "shown"
             /\ ret'.latest = IF session'.chat_history = <<>> THEN <<>>
                              ELSE <<LastChat(session')>>]_vars

\* two questions were answered, the first by the rules and the second by the
\* AI, and the second is the one shown
C29_Witness ==
    /\ op = "oracle"
    /\ pc = "done"
    /\ Len(session.chat_history) = 2
    /\ ~session.chat_history[1].ai_powered
    /\ session.chat_history[2].ai_powered
    /\ ret.kind = "shown"
    /\ ret.latest = <<session.chat_history[2]>>
    /\ ret.previous = <<session.chat_history[1]>>

\* C30: ai_enabled is True only if an ai_processor is stored in the session,
\* and no run of the Oracle view raises on a missing ai_processor.
C30_AiEnabledOnlyWithProcessor ==
    /\ session.ai_enabled => "ai_processor" \in session.keys
    /\ op = "oracle" => ret.kind # "raise"

\* LangChain and the key are there but the constructor raised: ai_enabled is
\* False, no processor is stored, and a question was answered by the rules
C30_Witness ==
    /\ op = "oracle"
    /\ pc = "done"
    /\ session.module.LANGCHAIN_AVAILABLE
    /\ session.module.OPENAI_API_KEY
    /\ "ai_enabled" \in session.keys
    /\ "ai_processor" \notin session.keys
    /\ ~session.ai_enabled
    /\ session.chat_history # <<>>
    /\ ~LastChat(session).ai_powered

====
